---- MODULE Spec2Model ----
(***************************************************************************)
(* A model of the detex-rs lexer (src/src/lexer.rs) with its character     *)
(* source (src/src/file_handler.rs), options (src/src/config.rs) and the   *)
(* driver loop of src/src/main.rs.                                         *)
(*                                                                         *)
(* A character is a one-character string.  Four symbolic characters stand  *)
(* for values a TLA+ string cannot hold: None (Option::None), NUL (the     *)
(* character '\0'), NonAscii (a two-byte UTF-8 character) and Backtick     *)
(* (the grave accent, which the TLA+ lexer does not take).  A Rust         *)
(* String is a sequence of characters.  Every handler of the lexer is an   *)
(* operator from the Detex record to the Detex record; a loop of the       *)
(* source is a RECURSIVE operator.  A value the source binds with let and  *)
(* reads several times is the parameter of an operator that models the     *)
(* code after the binding.  None belongs to no character class, so a test  *)
(* "Some(c) and class(c)" of the source is written class(c).               *)
(***************************************************************************)
EXTENDS Integers, Sequences, FiniteSets, TLC

VARIABLES
    opts,                  \* Detex.opts : Options
    state,                 \* Detex.state : State
    output,                \* Detex.output, the characters written so far
    file_stack,            \* Detex.file_stack : Vec<FileContext>
    current_ignored_env,   \* Detex.current_ignored_env
    open_braces,           \* Detex.open_braces
    args_count,            \* Detex.args_count
    current_braces_level,  \* Detex.current_braces_level
    footnote_level,        \* Detex.footnote_level
    at_column_zero,        \* Detex.at_column_zero
    stderr,                \* the diagnostics written by eprintln!
    files,                 \* the file system tex_open reads: path -> content
    pending,               \* main: the top-level files still to process
    running,               \* TRUE while Detex::process is on the call stack
    result,                \* what the last process_file returned
    overflow_checks        \* the build: TRUE = debug (overflow panics)

vars == <<opts, state, output, file_stack, current_ignored_env, open_braces,
          args_count, current_braces_level, footnote_level, at_column_zero,
          stderr, files, pending, running, result, overflow_checks>>

(***************************************************************************)
(* Characters                                                              *)
(***************************************************************************)
None == "<none>"
NUL == "<NUL>"
NonAscii == "<U+00E9>"
Backtick == "<backtick>"

Lower ==
    {"a","b","c","d","e","f","g","h","i","j","k","l","m",
     "n","o","p","q","r","s","t","u","v","w","x","y","z"}

Upper ==
    {"A","B","C","D","E","F","G","H","I","J","K","L","M",
     "N","O","P","Q","R","S","T","U","V","W","X","Y","Z"}

DigitChars == <<"0","1","2","3","4","5","6","7","8","9">>

Digits == {DigitChars[i] : i \in 1..Len(DigitChars)}

is_ascii_alphabetic(c) == c \in Lower \cup Upper

is_ascii_digit(c) == c \in Digits

is_ascii_alphanumeric(c) == is_ascii_alphabetic(c) \/ is_ascii_digit(c)

is_whitespace(c) == c \in {" ", "\t", "\n", "\r", "\f"}

\* c < ' ' : the characters below U+0020
less_than_space(c) == c \in {NUL, "\t", "\n", "\r", "\f"}

len_utf8(c) == IF c = NonAscii THEN 2 ELSE 1

RECURSIVE byte_len(_)
byte_len(s) == IF s = <<>> THEN 0 ELSE len_utf8(Head(s)) + byte_len(Tail(s))

\* The TLA+ string spelling a sequence of characters (to compare a name
\* read from the input with a literal of the source).
RECURSIVE Str(_)
Str(s) == IF s = <<>> THEN "" ELSE Head(s) \o Str(Tail(s))

saturating_sub(x, y) == IF x >= y THEN x - y ELSE 0

(***************************************************************************)
(* CharSource (file_handler.rs)                                            *)
(***************************************************************************)
CharSource_new(content) ==
    [buffer |-> content, pos |-> 0, pushback |-> <<>>, line |-> 1,
     at_line_start |-> TRUE]

peek(s) ==
    IF s.pushback # <<>> THEN s.pushback[Len(s.pushback)]
    ELSE IF s.pos < Len(s.buffer) THEN s.buffer[s.pos + 1]
    ELSE None

\* the second half of next: the line accounting for the character c taken
next_account(s, c) ==
    [c |-> c,
     s |-> IF c = "\n"
           THEN [s EXCEPT !.line = s.line + 1, !.at_line_start = TRUE]
           ELSE [s EXCEPT !.at_line_start = FALSE]]

\* next returns the pair [c, s]: the character (or None) and the source after
next(s) ==
    IF s.pushback # <<>>
    THEN next_account([s EXCEPT !.pushback = SubSeq(s.pushback, 1, Len(s.pushback) - 1)],
                      s.pushback[Len(s.pushback)])
    ELSE IF s.pos < Len(s.buffer)
         THEN next_account([s EXCEPT !.pos = s.pos + 1], s.buffer[s.pos + 1])
         ELSE [c |-> None, s |-> s]

\* unget that leaves the line counter alone
unget_keeping_line(s, c) == [s EXCEPT !.pushback = Append(s.pushback, c)]

unget(s, c) ==
    IF c = "\n"
    THEN [s EXCEPT !.line = saturating_sub(s.line, 1), !.at_line_start = FALSE,
                   !.pushback = Append(s.pushback, c)]
    ELSE [s EXCEPT !.pushback = Append(s.pushback, c)]

is_eof(s) == s.pushback = <<>> /\ s.pos >= Len(s.buffer)

\* CharSource::incr_line is called by the lexer but its body is not part of
\* file_handler.rs; it is taken to add one to the line counter.
incr_line(s) == [s EXCEPT !.line = s.line + 1]

\* the first loop of peek_ahead: pushback is read from index 0 upward while
\* fewer than n bytes are held
RECURSIVE peek_ahead_pushback(_, _, _, _)
peek_ahead_pushback(s, n, k, acc) ==
    IF k > Len(s.pushback) \/ byte_len(acc) >= n THEN acc
    ELSE peek_ahead_pushback(s, n, k + 1, Append(acc, s.pushback[k]))

\* the second loop adds up to n - pushback_used characters of the buffer
peek_ahead(s, n) ==
    LET from_buffer(taken) ==
            taken \o SubSeq(s.buffer, s.pos + 1,
                            IF s.pos + (n - Len(taken)) < Len(s.buffer)
                            THEN s.pos + (n - Len(taken)) ELSE Len(s.buffer))
    IN  from_buffer(peek_ahead_pushback(s, n, 1, <<>>))

(***************************************************************************)
(* Options (config.rs)                                                     *)
(***************************************************************************)
MAX_FILE_STACK == 256

\* is_latex not looking at force_tex
is_latex_unforced(o) == o.latex

is_latex(o) == o.latex /\ ~o.force_tex

(***************************************************************************)
(* Detex: the record threaded through the handlers.  error is the Err      *)
(* message a handler returns ("" for Ok); panicked is set when the handler *)
(* aborts abnormally.                                                      *)
(***************************************************************************)
current_source(d) == d.file_stack[Len(d.file_stack)].source

set_source(d, s) == [d EXCEPT !.file_stack[Len(d.file_stack)].source = s]

current_filename(d) == d.file_stack[Len(d.file_stack)].name

current_line(d) == current_source(d).line

write(d, chars) == [d EXCEPT !.output = d.output \o chars]

set_state(d, new_state) == [d EXCEPT !.state = new_state]

RECURSIVE decimal(_)
decimal(n) ==
    IF n < 10 THEN <<DigitChars[n + 1]>>
    ELSE Append(decimal(n \div 10), DigitChars[(n % 10) + 1])

print_prefix(d) ==
    IF d.opts.src_loc /\ d.at_column_zero
    THEN [d EXCEPT !.output = d.output \o current_filename(d) \o <<":">>
                                 \o decimal(current_line(d)) \o <<":", " ">>,
                   !.at_column_zero = FALSE]
    ELSE d

echo(d, c) == write(print_prefix(d), <<c>>)

echo_str(d, s) == write(print_prefix(d), s)

\* the recurring pair: source.incr_line(); self.at_column_zero = true
track_newline(d) ==
    [d EXCEPT !.file_stack[Len(d.file_stack)].source = incr_line(current_source(d)),
              !.at_column_zero = TRUE]

newline(d) ==
    IF d.opts.word THEN d
    ELSE track_newline(write(print_prefix(d), <<"\n">>))

\* if !self.opts.word { write!(output, chars) }
write_unless_word(d, chars) == IF ~d.opts.word THEN write(d, chars) ELSE d

space(d) == write_unless_word(d, <<" ">>)

noun(d) ==
    IF d.opts.space /\ ~d.opts.word /\ ~d.opts.replace THEN write(d, <<" ">>)
    ELSE IF d.opts.replace THEN write(d, <<"n","o","u","n">>)
    ELSE d

verb_noun(d) ==
    IF d.opts.replace
    THEN write(d, <<" ","v","e","r","b","s"," ","n","o","u","n">>)
    ELSE d

ignore(d) == IF d.opts.space /\ ~d.opts.word THEN write(d, <<" ">>) ELSE d

\* la_begin entering the state whatever the mode
la_begin_always(d, new_state) == [d EXCEPT !.state = new_state]

la_begin(d, new_state) ==
    IF is_latex(d.opts) THEN [d EXCEPT !.state = new_state] ELSE d

set_latex(d) == IF ~d.opts.force_tex THEN [d EXCEPT !.opts.latex = TRUE] ELSE d

kill_args(d, n) ==
    la_begin([d EXCEPT !.args_count = n, !.open_braces = 0], "LaMacro")

strip_args(d, n) ==
    la_begin([d EXCEPT !.args_count = n, !.open_braces = 0], "LaMacro2")

\* begin_env finding no environment in the ignore list
begin_env_never(d, env) == [ok |-> FALSE, d |-> d]

\* begin_env returns the pair [ok, d]
begin_env(d, env) ==
    IF ~is_latex(d.opts) THEN [ok |-> FALSE, d |-> d]
    ELSE IF \E i \in 1..Len(d.opts.env_ignore) : d.opts.env_ignore[i] = env
         THEN [ok |-> TRUE, d |-> [d EXCEPT !.current_ignored_env = env]]
         ELSE [ok |-> FALSE, d |-> d]

end_env(d, env) == IF ~is_latex(d.opts) THEN FALSE ELSE env = d.current_ignored_env

\* next_char returns the pair [c, d], from the pair [c, s] of CharSource::next
next_char(d) ==
    LET of(r) == [c |-> r.c, d |-> set_source(d, r.s)]
    IN  of(next(current_source(d)))

\* next_char() with the character dropped
advance(d) == set_source(d, next(current_source(d)).s)

peek_char(d) == peek(current_source(d))

unget_char(d, c) == set_source(d, unget(current_source(d), c))

\* a consumed character that is a newline is tracked
track_if_newline(r) == IF r.c = "\n" THEN track_newline(r.d) ELSE r.d

RECURSIVE skip_whitespace(_)
skip_whitespace(d) ==
    IF is_whitespace(peek_char(d)) THEN skip_whitespace(track_if_newline(next_char(d)))
    ELSE d

\* read_command_name returns the pair [name, d]
RECURSIVE read_command_name_from(_, _)
read_command_name_from(d, name) ==
    IF is_ascii_alphabetic(peek_char(d)) \/ peek_char(d) = "@"
    THEN read_command_name_from(advance(d), Append(name, peek_char(d)))
    ELSE [name |-> name, d |-> d]

read_command_name(d) == read_command_name_from(d, <<>>)

\* for c in matched.into_iter().rev() { self.unget_char(c) }
RECURSIVE unget_all_rev(_, _)
unget_all_rev(d, matched) ==
    IF matched = <<>> THEN d
    ELSE unget_all_rev(unget_char(d, matched[Len(matched)]),
                       SubSeq(matched, 1, Len(matched) - 1))

\* try_match returns the pair [ok, d]; on a mismatch the characters it has
\* consumed are put back
RECURSIVE try_match_from(_, _, _)
try_match_from(d, chars, matched) ==
    LET on(r) ==
            IF r.c = chars[Len(matched) + 1]
            THEN try_match_from(r.d, chars, Append(matched, r.c))
            ELSE IF r.c # None
                 THEN [ok |-> FALSE, d |-> unget_all_rev(unget_char(r.d, r.c), matched)]
                 ELSE [ok |-> FALSE, d |-> unget_all_rev(r.d, matched)]
    IN  IF Len(matched) = Len(chars) THEN [ok |-> TRUE, d |-> d]
        ELSE on(next_char(d))

\* try_match that, on a mismatch, puts back all but the first character read
try_match_consuming(d, chars) ==
    LET on(r) == IF r.ok THEN r ELSE [ok |-> FALSE, d |-> advance(r.d)]
    IN  on(try_match_from(d, chars, <<>>))

try_match(d, chars) == try_match_from(d, chars, <<>>)

match_optional_star(d) == IF peek_char(d) = "*" THEN advance(d) ELSE d

RECURSIVE skip_number(_)
skip_number(d) ==
    IF is_ascii_digit(peek_char(d)) \/ peek_char(d) = "." THEN skip_number(advance(d))
    ELSE d

skip_sign(d) == IF peek_char(d) = "+" \/ peek_char(d) = "-" THEN advance(d) ELSE d

\* sign, number, unit and the whitespace after: one dimension of a glue
skip_dimension(d) ==
    skip_whitespace(read_command_name(skip_number(skip_sign(d))).d)

\* while self.try_match("plus") || self.try_match("minus") { ... }
RECURSIVE skip_glue_clauses(_)
skip_glue_clauses(d) ==
    LET minus(m) ==
            IF m.ok THEN skip_glue_clauses(skip_dimension(skip_whitespace(m.d))) ELSE m.d
        plus(m) ==
            IF m.ok THEN skip_glue_clauses(skip_dimension(skip_whitespace(m.d)))
            ELSE minus(try_match(m.d, <<"m","i","n","u","s">>))
    IN  plus(try_match(d, <<"p","l","u","s">>))

skip_glue(d) == skip_glue_clauses(skip_dimension(skip_whitespace(d)))

\* the balanced scan shared by skip_brace_arg and skip_optional_bracket_arg
RECURSIVE skip_balanced(_, _, _, _)
skip_balanced(d, open, close, depth) ==
    LET on(r) ==
            IF r.c = None THEN r.d
            ELSE IF r.c = open THEN skip_balanced(r.d, open, close, depth + 1)
            ELSE IF r.c = close THEN skip_balanced(r.d, open, close, depth - 1)
            ELSE IF r.c = "\\"
                 THEN skip_balanced(track_if_newline(next_char(r.d)), open, close, depth)
            ELSE IF r.c = "\n" THEN skip_balanced(track_newline(r.d), open, close, depth)
            ELSE skip_balanced(r.d, open, close, depth)
    IN  IF depth = 0 THEN d ELSE on(next_char(d))

skip_brace_arg(d) ==
    LET on(m) == IF m.ok THEN skip_balanced(m.d, "{", "}", 1) ELSE m.d
    IN  on(try_match(skip_whitespace(d), <<"{">>))

skip_optional_bracket_arg(d) ==
    IF peek_char(d) = "[" THEN skip_balanced(advance(d), "[", "]", 1) ELSE d

(***************************************************************************)
(* Normal state (process_normal)                                           *)
(***************************************************************************)
\* '%': the comment through the end of the line
RECURSIVE skip_comment(_)
skip_comment(d) ==
    LET on(r) ==
            IF r.c = None THEN r.d
            ELSE IF r.c = "\n" THEN track_newline(r.d)
            ELSE skip_comment(r.d)
    IN  on(next_char(d))

normal_comment(d) == ignore(skip_comment(d))

normal_dollar(d) ==
    IF peek_char(d) = "$" THEN noun(set_state(advance(d), "Display"))
    ELSE noun(set_state(d, "Math"))

\* the characters of a number (digits, '.', '+', '-') after '{'; [consumed, d]
RECURSIVE consume_number(_, _)
consume_number(d, consumed) ==
    IF is_ascii_digit(peek_char(d)) \/ peek_char(d) \in {".", "+", "-"}
    THEN consume_number(advance(d), Append(consumed, peek_char(d)))
    ELSE [consumed |-> consumed, d |-> d]

\* self.current_braces_level += 1
open_brace_level(d) == [d EXCEPT !.current_braces_level = d.current_braces_level + 1]

\* "{N pt}" is dropped whole; anything else is put back and the brace counted
normal_open_brace(d) ==
    LET unget_pt(pt) == IF pt.ok THEN unget_char(unget_char(pt.d, "t"), "p") ELSE pt.d
        after_pt(consumed, pt) ==
            IF consumed # <<>> /\ pt.ok /\ peek_char(pt.d) = "}" THEN advance(pt.d)
            ELSE open_brace_level(unget_all_rev(unget_pt(pt), consumed))
        after_number(num) == after_pt(num.consumed, try_match(num.d, <<"p","t">>))
    IN  IF is_ascii_digit(peek_char(d)) \/ peek_char(d) \in {"+", "-", "."}
        THEN after_number(consume_number(d, <<>>))
        ELSE open_brace_level(d)

\* the closing brace of a footnote leaving the footnote marker as it is
normal_close_brace_kept(d) ==
    LET close_footnote(d1) ==
            IF d1.current_braces_level = d1.footnote_level THEN write(d1, <<")">>) ELSE d1
    IN  close_footnote([d EXCEPT !.current_braces_level =
                                     saturating_sub(d.current_braces_level, 1)])

normal_close_brace(d) ==
    LET close_footnote(d1) ==
            IF d1.current_braces_level = d1.footnote_level
            THEN [write(d1, <<")">>) EXCEPT !.footnote_level = -100]
            ELSE d1
    IN  close_footnote([d EXCEPT !.current_braces_level =
                                     saturating_sub(d.current_braces_level, 1)])

normal_spanish(d, c) ==
    IF peek_char(d) = Backtick THEN advance(d)
    ELSE IF ~d.opts.word THEN echo(d, c)
    ELSE d

\* skip_dashes without the limit of three
RECURSIVE skip_dashes_all(_, _)
skip_dashes_all(d, dashes) ==
    IF peek_char(d) = "-" THEN skip_dashes_all(advance(d), dashes + 1) ELSE d

RECURSIVE skip_dashes(_, _)
skip_dashes(d, dashes) ==
    IF peek_char(d) = "-" /\ dashes < 3 THEN skip_dashes(advance(d), dashes + 1)
    ELSE d

normal_dash(d) == write_unless_word(skip_dashes(d, 1), <<"-">>)

\* normal_backtick writing the backtick as it is
normal_backtick_kept(d) == write_unless_word(d, <<Backtick>>)

normal_backtick(d) ==
    IF peek_char(d) = Backtick THEN write_unless_word(advance(d), <<"\"">>)
    ELSE write_unless_word(d, <<"'">>)

\* normal_doubled without the echo of a single character
normal_doubled_dropped(d, c) ==
    IF peek_char(d) = c THEN write_unless_word(advance(d), <<"\"">>) ELSE d

\* '\'' and ',': doubled it is written as '"', single it is echoed
normal_doubled(d, c) ==
    IF peek_char(d) = c THEN write_unless_word(advance(d), <<"\"">>)
    ELSE IF ~d.opts.word THEN echo(d, c)
    ELSE d

\* the word loop; [word, d]
RECURSIVE read_word(_, _)
read_word(d, word) ==
    LET apostrophe(d1) ==
            IF is_ascii_alphabetic(peek_char(d1)) THEN read_word(d1, Append(word, "'"))
            ELSE [word |-> word, d |-> unget_char(d1, "'")]
    IN  IF is_ascii_alphabetic(peek_char(d))
        THEN read_word(advance(d), Append(word, peek_char(d)))
        ELSE IF peek_char(d) = "'" THEN apostrophe(advance(d))
        ELSE [word |-> word, d |-> d]

normal_word(d, c) ==
    LET write_word(w) ==
            IF w.d.opts.word THEN write(w.d, Append(w.word, "\n"))
            ELSE echo_str(w.d, w.word)
    IN  write_word(read_word(d, <<c>>))

RECURSIVE read_digits(_, _)
read_digits(d, num) ==
    IF is_ascii_digit(peek_char(d)) THEN read_digits(advance(d), Append(num, peek_char(d)))
    ELSE [num |-> num, d |-> d]

normal_number(d, c) ==
    LET write_number(n) == echo_str(n.d, n.num)
    IN  IF ~d.opts.word THEN write_number(read_digits(d, <<c>>)) ELSE d

\* the test on the lookahead: "swallow" the space, "echo" it, or "panic"
\* when lookahead[0..5] does not end on a character boundary
space_before_cite(d) ==
    LET is_char_boundary(s, k) == \E i \in 0..Len(s) : byte_len(SubSeq(s, 1, i)) = k
        byte_prefix(s, k) ==
            SubSeq(s, 1, CHOOSE i \in 0..Len(s) : byte_len(SubSeq(s, 1, i)) = k)
        test(lookahead) ==
            IF byte_len(lookahead) >= 5
            THEN IF ~is_char_boundary(lookahead, 5) THEN "panic"
                 ELSE IF byte_prefix(lookahead, 5) = <<"\\","c","i","t","e">>
                         /\ (byte_len(lookahead) = 5 \/ ~is_ascii_alphabetic(lookahead[6]))
                      THEN "swallow"
                      ELSE "echo"
            ELSE "echo"
    IN  test(peek_ahead(current_source(d), 6))

normal_other(d, c) ==
    LET space_before(what) ==
            IF what = "panic" THEN [d EXCEPT !.panicked = TRUE]
            ELSE IF what = "swallow" THEN d
            ELSE echo(d, c)
    IN  IF ~d.opts.word
        THEN IF c = " " /\ peek_char(d) = "\\" THEN space_before(space_before_cite(d))
             ELSE echo(d, c)
        ELSE d

(***************************************************************************)
(* Backslash commands in Normal state (process_backslash)                  *)
(***************************************************************************)
\* "\" followed by a character that starts no command name
backslash_escape(d) ==
    LET on(r) ==
            IF r.c = "(" THEN noun(la_begin(r.d, "LaFormula"))
            ELSE IF r.c = "[" THEN noun(la_begin(r.d, "LaDisplay"))
            ELSE IF r.c = "\\"
                 THEN newline(skip_optional_bracket_arg(match_optional_star(r.d)))
            ELSE IF r.c = " " THEN space(r.d)
            ELSE IF r.c = "%" THEN write_unless_word(r.d, <<"%">>)
            ELSE IF r.c = "$" THEN write_unless_word(r.d, <<"$">>)
            ELSE ignore(r.d)
    IN  on(next_char(d))

RECURSIVE skip_newlines(_)
skip_newlines(d) ==
    IF peek_char(d) = "\n" THEN skip_newlines(track_newline(advance(d))) ELSE d

\* if self.begin_env(env) { self.state = State::LaEnv }
enter_env(d, env) ==
    LET on(b) == IF b.ok THEN set_state(b.d, "LaEnv") ELSE b.d
    IN  on(begin_env(d, env))

backslash_begin(d0) ==
    LET verbatim_on(b) ==
            IF b.ok THEN set_state(b.d, "LaEnv") ELSE set_state(b.d, "LaVerbatim")
        named(d, env) ==
            IF env = "document" THEN skip_newlines(set_latex(d))
            ELSE IF env = "verbatim" THEN ignore(verbatim_on(begin_env(d, "verbatim")))
            ELSE IF env = "minipage" THEN ignore(enter_env(kill_args(d, 1), "minipage"))
            ELSE IF env = "table" \/ env = "figure"
                 THEN ignore(enter_env(skip_optional_bracket_arg(skip_whitespace(d)), env))
            ELSE ignore(enter_env(d, env))
        name(n) == named(try_match(skip_whitespace(n.d), <<"}">>).d, Str(n.name))
        brace(m) == IF ~m.ok THEN m.d ELSE name(read_command_name(skip_whitespace(m.d)))
        latex(d) ==
            IF ~is_latex(d.opts) THEN d ELSE brace(try_match(skip_whitespace(d), <<"{">>))
    IN  latex(ignore(d0))

backslash_footnote(d) ==
    LET open(m) ==
            IF m.ok
            THEN [write(m.d, <<"(">>) EXCEPT
                     !.footnote_level = m.d.current_braces_level,
                     !.current_braces_level = m.d.current_braces_level + 1]
            ELSE m.d
    IN  open(try_match(skip_optional_bracket_arg(d), <<"{">>))

verb_error == "\\verb not complete before eof"

RECURSIVE verb_body(_, _)
verb_body(d, delim) ==
    LET on(r) ==
            IF r.c = None THEN r.d
            ELSE IF r.c = delim THEN r.d
            ELSE IF r.c = "\n" \/ r.c = NUL THEN [r.d EXCEPT !.error = verb_error]
            ELSE verb_body(write(r.d, <<r.c>>), delim)
    IN  on(next_char(d))

\* backslash_verb leaving the delimiter and the text to Normal state
backslash_verb_skipped(d) == d

backslash_verb(d) ==
    LET delimiter(r) ==
            IF r.c = None THEN r.d
            ELSE IF less_than_space(r.c) THEN [r.d EXCEPT !.error = verb_error]
            ELSE verb_body(r.d, r.c)
    IN  IF is_latex(d.opts) THEN delimiter(next_char(d)) ELSE d

\* \aa \AA \ae \AE \oe \OE \ss and \O \o \i \j \L \l: the name is written and
\* the character after it is consumed when it is whitespace or '}'
backslash_ligature(d, cmd) ==
    LET trailing(d1) ==
            IF is_whitespace(peek_char(d1)) \/ peek_char(d1) = "}" THEN advance(d1) ELSE d1
    IN  trailing(write_unless_word(d, cmd))

RECURSIVE skip_bracket_args(_)
skip_bracket_args(d) ==
    IF peek_char(d) = "[" THEN skip_bracket_args(skip_optional_bracket_arg(d)) ELSE d

Kill1 ==
    {"newlength", "newsavebox", "usebox", "parbox", "rotatebox", "sbox", "color",
     "pagecolor", "addfontfeature", "thispagestyle", "cite", "hypersetup", "index",
     "newcounter", "fontspec"}

Kill2 ==
    {"setlength", "addtolength", "settowidth", "settoheight", "settodepth", "savebox",
     "textcolor", "colorbox", "stepcounter"}

Kill3 == {"definecolor", "fcolorbox", "addcontentsline"}

Kill1Ignore == {"end", "bibitem", "bibliography", "bibstyle", "label", "pagestyle", "usepackage"}

Kill2Ignore == {"setcounter", "addtocounter"}

Strip2 == {"raisebox", "scalebox", "foilhead"}

Sectioning ==
    {"part", "chapter", "section", "subsection", "subsubsection", "paragraph",
     "subparagraph"}

Ligatures ==
    {"aa", "AA", "ae", "AE", "oe", "OE", "ss", "O", "o", "i", "j", "L", "l"}

\* the match on the command name: name as characters, cmd as a string
process_backslash(d0) ==
    LET command(d, name, cmd) ==
            IF name = <<>> THEN backslash_escape(d)
            ELSE IF cmd = "begin" THEN backslash_begin(d)
            ELSE IF cmd \in Kill1Ignore THEN ignore(kill_args(d, 1))
            ELSE IF cmd \in {"kern", "vskip", "hskip"} THEN skip_glue(d)
            ELSE IF cmd \in {"vspace", "hspace"} THEN skip_brace_arg(match_optional_star(d))
            ELSE IF cmd = "addvspace" THEN skip_brace_arg(d)
            ELSE IF cmd \in Kill1 THEN kill_args(d, 1)
            ELSE IF cmd \in Kill2 THEN kill_args(d, 2)
            ELSE IF cmd \in Strip2 THEN strip_args(d, 2)
            ELSE IF cmd = "resizebox" THEN kill_args(match_optional_star(d), 2)
            ELSE IF cmd = "reflectbox" THEN d
            ELSE IF cmd \in Kill3 THEN kill_args(d, 3)
            ELSE IF cmd = "includegraphics" THEN la_begin(skip_bracket_args(d), "LaPicture")
            ELSE IF cmd \in Sectioning THEN match_optional_star(d)
            ELSE IF cmd \in {"nameref", "pageref", "ref"}
                 THEN ignore(IF is_latex(d.opts) /\ ~d.opts.cite THEN kill_args(d, 1) ELSE d)
            ELSE IF cmd \in Kill2Ignore THEN ignore(kill_args(d, 2))
            ELSE IF cmd \in {"documentstyle", "documentclass"} THEN ignore(kill_args(set_latex(d), 1))
            ELSE IF cmd \in {"include", "subfile"} THEN ignore(la_begin(d, "LaInclude"))
            ELSE IF cmd = "includeonly" THEN ignore(set_state(d, "IncludeOnly"))
            ELSE IF cmd = "input" THEN ignore(set_state(d, "Input"))
            ELSE IF cmd = "footnote" THEN backslash_footnote(d)
            ELSE IF cmd = "verb" THEN backslash_verb(d)
            ELSE IF cmd \in {"newcommand", "renewcommand"} THEN kill_args(set_latex(d), 2)
            ELSE IF cmd = "newenvironment" THEN kill_args(set_latex(d), 3)
            ELSE IF cmd = "def" THEN ignore(set_state(d, "Define"))
            ELSE IF cmd = "slash" THEN write_unless_word(d, <<"/">>)
            ELSE IF cmd \in Ligatures THEN backslash_ligature(d, name)
            ELSE IF cmd = "linebreak" THEN newline(skip_optional_bracket_arg(d))
            ELSE ignore(set_state(d, "Control"))
        named(n) == command(n.d, n.name, Str(n.name))
    IN  named(read_command_name(d0))

process_normal(d0) ==
    LET char(d, c) ==
            IF c = None THEN d
            ELSE IF c = "%" THEN normal_comment(d)
            ELSE IF c = "\\" THEN process_backslash(d)
            ELSE IF c = "$" THEN normal_dollar(d)
            ELSE IF c = "{" THEN normal_open_brace(d)
            ELSE IF c = "}" THEN normal_close_brace(d)
            ELSE IF c = "~" THEN space(d)
            ELSE IF c = "|" THEN ignore(d)
            ELSE IF c = "!" \/ c = "?" THEN normal_spanish(d, c)
            ELSE IF c = "-" THEN normal_dash(d)
            ELSE IF c = Backtick THEN normal_backtick(d)
            ELSE IF c = "'" \/ c = "," THEN normal_doubled(d, c)
            ELSE IF c = "\n" THEN (IF ~d.opts.word THEN newline(d) ELSE d)
            ELSE IF c = "\t" THEN write_unless_word(d, <<"\t">>)
            ELSE IF is_ascii_alphabetic(c) THEN normal_word(d, c)
            ELSE IF is_ascii_digit(c) THEN normal_number(d, c)
            ELSE normal_other(d, c)
        on(r) == char(r.d, r.c)
    IN  on(next_char(d0))

(***************************************************************************)
(* File lookup (file_handler.rs) and inclusion                             *)
(***************************************************************************)
\* the position of the last occurrence of c in s, 0 when there is none
rfind(s, c) ==
    IF \E i \in 1..Len(s) : s[i] = c
    THEN CHOOSE i \in 1..Len(s) : s[i] = c /\ \A j \in (i + 1)..Len(s) : s[j] # c
    ELSE 0

ends_with(s, suffix) ==
    Len(s) >= Len(suffix) /\ SubSeq(s, Len(s) - Len(suffix) + 1, Len(s)) = suffix

\* Path::file_name: the final component
file_name(path) == SubSeq(path, rfind(path, "/") + 1, Len(path))

\* the position in path of the dot that starts the extension, 0 when there is none
extension_dot(path) ==
    LET fname == file_name(path)
        dot == rfind(fname, ".")
    IN  IF dot > 1 THEN Len(path) - Len(fname) + dot ELSE 0

\* Path::extension, <<>> when there is none
extension(path) ==
    IF extension_dot(path) = 0 THEN <<>>
    ELSE SubSeq(path, extension_dot(path) + 1, Len(path))

\* Path::file_stem
file_stem(path) ==
    LET fname == file_name(path)
        dot == rfind(fname, ".")
    IN  IF dot > 1 THEN SubSeq(fname, 1, dot - 1) ELSE fname

\* Path::with_extension("tex")
with_extension_tex(path) ==
    IF file_name(path) = <<>> THEN path
    ELSE IF extension_dot(path) = 0 THEN path \o <<".","t","e","x">>
    ELSE SubSeq(path, 1, extension_dot(path)) \o <<"t","e","x">>

is_absolute(path) == path # <<>> /\ path[1] = "/"

\* Path::join for a relative filename
join(dir, filename) ==
    IF dir = <<>> \/ dir[Len(dir)] = "/" THEN dir \o filename
    ELSE dir \o <<"/">> \o filename

\* File::open succeeds
try_open_file(fs, path) == Str(path) \in DOMAIN fs

\* for input_path in &opts.input_paths { ... }: the path opened, or None
RECURSIVE tex_open_paths(_, _, _)
tex_open_paths(fs, filename, input_paths) ==
    LET in_path(full_path, rest) ==
            IF ends_with(filename, <<".","t","e","x">>)
            THEN IF try_open_file(fs, full_path) THEN Str(full_path) ELSE rest
            ELSE IF extension(filename) # <<>> /\ try_open_file(fs, full_path)
                 THEN Str(full_path)
            ELSE IF try_open_file(fs, with_extension_tex(full_path))
                 THEN Str(with_extension_tex(full_path))
            ELSE IF try_open_file(fs, full_path) THEN Str(full_path)
            ELSE rest
    IN  IF input_paths = <<>> THEN None
        ELSE in_path(join(Head(input_paths), filename),
                     tex_open_paths(fs, filename, Tail(input_paths)))

\* tex_open returns the path it opened, or None; with no input paths the
\* current directory is tried after the loop
tex_open(fs, filename, o) ==
    LET after_paths(found) ==
            IF found # None THEN found
            ELSE IF o.input_paths = <<>>
                 THEN IF try_open_file(fs, filename) THEN Str(filename)
                      ELSE IF try_open_file(fs, with_extension_tex(filename))
                           THEN Str(with_extension_tex(filename))
                           ELSE None
                 ELSE None
    IN  IF is_absolute(filename)
        THEN IF try_open_file(fs, filename) THEN Str(filename) ELSE None
        ELSE after_paths(tex_open_paths(fs, filename, o.input_paths))

\* the content of a file that read_to_string cannot read
Unreadable == <<"<unreadable>">>

in_include_list(filename, o) ==
    IF o.include_list = <<>> THEN TRUE
    ELSE \E i \in 1..Len(o.include_list) : o.include_list[i] = file_stem(filename)

eprintln(d, msg) == [d EXCEPT !.stderr = Append(d.stderr, msg)]

\* push_file putting the new source under the sources of the stack
push_file_below(d, content, name) ==
    [d EXCEPT !.file_stack =
        <<[source |-> CharSource_new(content), name |-> name]>> \o d.file_stack]

\* self.file_stack.push(FileContext { source, name })
push_file(d, content, name) ==
    [d EXCEPT !.file_stack =
        Append(d.file_stack, [source |-> CharSource_new(content), name |-> name])]

\* input_file returning Err for every file
input_file_fatal(d, filename) == [d EXCEPT !.error = "can't open file"]

\* input_file without the test of no_follow
input_file_followed(d, filename) ==
    LET opened(path) ==
            IF path = None THEN eprintln(d, "can't open file")
            ELSE IF d.files[path] = Unreadable THEN eprintln(d, "can't read file")
            ELSE push_file(d, d.files[path], filename)
    IN  opened(tex_open(d.files, filename, d.opts))

input_file(d, filename) ==
    LET opened(path) ==
            IF path = None THEN eprintln(d, "can't open file")
            ELSE IF d.files[path] = Unreadable THEN eprintln(d, "can't read file")
            ELSE push_file(d, d.files[path], filename)
    IN  IF d.opts.no_follow THEN d
        ELSE IF Len(d.file_stack) >= MAX_FILE_STACK THEN eprintln(d, "file stack overflow")
        ELSE opened(tex_open(d.files, filename, d.opts))

include_file(d, filename) ==
    IF d.opts.no_follow THEN d
    ELSE IF ~in_include_list(filename, d.opts) THEN d
    ELSE input_file(d, filename)

\* the base is filename[..pos] for pos the last '.', the whole name without one
add_include(d, filename) ==
    LET base(pos) == IF pos > 0 THEN SubSeq(filename, 1, pos - 1) ELSE filename
    IN  IF d.opts.no_follow THEN d
        ELSE [d EXCEPT !.opts.include_list =
                 Append(d.opts.include_list, base(rfind(filename, ".")))]

(***************************************************************************)
(* The other states                                                        *)
(***************************************************************************)
is_verb_symbol(cmd) ==
    cmd \in {"leq", "geq", "in", "subseteq", "subset", "supset", "sim", "neq", "mapsto"}

\* let cmd = self.read_command_name(); if is_verb_symbol(&cmd) { self.verb_noun() }
verb_command(d) ==
    LET named(n) == IF is_verb_symbol(Str(n.name)) THEN verb_noun(n.d) ELSE n.d
    IN  named(read_command_name(d))

check_verb_symbol(d, c) ==
    IF c = "=" \/ c = ">" \/ c = "<" THEN verb_noun(d)
    ELSE IF c = "\\" THEN verb_command(d)
    ELSE d

process_define(d) ==
    LET on(r) ==
            IF r.c = "{" THEN set_state(r.d, "Normal")
            ELSE IF r.c = "\n" THEN newline(r.d)
            ELSE r.d
    IN  on(next_char(d))

process_display(d) ==
    LET on(r) ==
            IF r.c = None THEN r.d
            ELSE IF r.c = "$"
                 THEN IF peek_char(r.d) = "$" THEN set_state(advance(r.d), "Normal")
                      ELSE check_verb_symbol(r.d, "$")
            ELSE IF r.c = "\n" THEN newline(r.d)
            ELSE check_verb_symbol(r.d, r.c)
    IN  on(next_char(d))

\* process_math without the escaped dollar
process_math_unescaped(d) ==
    LET on(r) ==
            IF r.c = None THEN r.d
            ELSE IF r.c = "$" THEN set_state(r.d, "Normal")
            ELSE IF r.c = "\\" THEN verb_command(r.d)
            ELSE IF r.c = "\n" THEN r.d
            ELSE check_verb_symbol(r.d, r.c)
    IN  on(next_char(d))

process_math(d) ==
    LET on(r) ==
            IF r.c = None THEN r.d
            ELSE IF r.c = "$" THEN set_state(r.d, "Normal")
            ELSE IF r.c = "\\"
                 THEN IF peek_char(r.d) = "$" THEN advance(r.d) ELSE verb_command(r.d)
            ELSE IF r.c = "\n" THEN r.d
            ELSE check_verb_symbol(r.d, r.c)
    IN  on(next_char(d))

\* a Control step that reads nothing and stays in Control
process_control_stuck(d) == d

process_control(d) ==
    LET brace(d1) == IF peek_char(d1) = "{" THEN open_brace_level(advance(d1)) ELSE d1
        on(r) ==
            IF r.c = None THEN set_state(r.d, "Normal")
            ELSE IF r.c = "\n" THEN set_state(r.d, "Normal")
            ELSE IF is_whitespace(r.c)
                 THEN ignore(set_state(brace(skip_whitespace(r.d)), "Normal"))
            ELSE IF r.c = "{" THEN ignore(set_state(open_brace_level(r.d), "Normal"))
            ELSE IF r.c = "\\" THEN ignore(read_command_name(r.d).d)
            ELSE IF is_ascii_alphanumeric(r.c) \/ r.c \in {"-", "'", "=", Backtick} THEN r.d
            ELSE set_state(unget_char(r.d, r.c), "Normal")
    IN  on(next_char(d))

\* a filename up to one of the stop characters or whitespace; [filename, d]
RECURSIVE read_filename(_, _, _)
read_filename(d, stops, filename) ==
    IF peek_char(d) = None \/ peek_char(d) \in stops \/ is_whitespace(peek_char(d))
    THEN [filename |-> filename, d |-> d]
    ELSE read_filename(advance(d), stops, Append(filename, peek_char(d)))

process_include_only(d0) ==
    LET close(d) ==
            IF d.opts.include_list = <<>> THEN [d EXCEPT !.opts.include_list = << <<>> >>]
            ELSE d
        name(f) == IF f.filename # <<>> THEN add_include(f.d, f.filename) ELSE f.d
        at(d) ==
            IF peek_char(d) = None THEN d
            ELSE IF peek_char(d) = "{" THEN advance(d)
            ELSE IF peek_char(d) = "}" THEN set_state(close(advance(d)), "Normal")
            ELSE IF peek_char(d) = "," THEN advance(d)
            ELSE IF peek_char(d) = "\n" THEN newline(d)
            ELSE name(read_filename(d, {",", "}"}, <<>>))
    IN  at(skip_whitespace(d0))

process_input(d0) ==
    LET name(f) == IF f.filename # <<>> THEN input_file(f.d, f.filename) ELSE f.d
        at(d) ==
            IF peek_char(d) = None THEN set_state(d, "Normal")
            ELSE IF peek_char(d) = "{" THEN advance(d)
            ELSE IF peek_char(d) = "\n" THEN newline(d)
            ELSE IF ~is_whitespace(peek_char(d)) /\ peek_char(d) # "}"
                 THEN set_state(name(read_filename(d, {"}"}, <<>>)), "Normal")
            ELSE set_state(d, "Normal")
    IN  at(skip_whitespace(d0))

process_la_include(d0) ==
    LET name(f) == IF f.filename # <<>> THEN include_file(f.d, f.filename) ELSE f.d
        at(d) ==
            IF peek_char(d) = None THEN set_state(d, "Normal")
            ELSE IF peek_char(d) = "{" THEN advance(d)
            ELSE IF peek_char(d) = "\n" THEN newline(d)
            ELSE IF ~is_whitespace(peek_char(d)) /\ peek_char(d) # "}"
                 THEN set_state(name(read_filename(d, {"}"}, <<>>)), "Normal")
            ELSE set_state(d, "Normal")
    IN  at(skip_whitespace(d0))

process_la_env(d) ==
    LET end(m) == IF m.ok THEN ignore(la_begin(m.d, "LaEnd")) ELSE m.d
    IN  IF peek_char(d) = None THEN d
        ELSE IF peek_char(d) = "\\" THEN end(try_match(advance(d), <<"e","n","d">>))
        ELSE IF peek_char(d) = "\n" THEN track_newline(advance(d))
        ELSE advance(d)

\* after '{' the name is read and compared and the closing brace is left in
\* place; a letter starts a name that is read and compared
process_la_end(d0) ==
    LET braced(d, env) ==
            IF end_env(d, env) THEN ignore(set_state(d, "Normal"))
            ELSE ignore(set_state(d, "LaEnv"))
        braced_name(n) == braced(skip_whitespace(n.d), Str(n.name))
        bare_name(n) ==
            IF end_env(n.d, Str(n.name)) THEN ignore(set_state(n.d, "Normal"))
            ELSE ignore(n.d)
        at(d) ==
            IF peek_char(d) = None THEN set_state(d, "Normal")
            ELSE IF peek_char(d) = "{"
                 THEN braced_name(read_command_name(skip_whitespace(advance(d))))
            ELSE IF is_ascii_alphabetic(peek_char(d)) THEN bare_name(read_command_name(d))
            ELSE IF peek_char(d) = "}" THEN ignore(set_state(advance(d), "LaEnv"))
            ELSE advance(d)
    IN  at(skip_whitespace(d0))

\* LaDisplay (close = "]") and LaFormula (close = ")")
la_math(d, close) ==
    LET closing(m) == IF m.ok THEN set_state(m.d, "Normal") ELSE verb_command(m.d)
        on(r) ==
            IF r.c = None THEN r.d
            ELSE IF r.c = "\\" THEN closing(try_match(r.d, <<close>>))
            ELSE IF r.c = "\n" THEN newline(r.d)
            ELSE check_verb_symbol(r.d, r.c)
    IN  on(next_char(d))

process_la_display(d) == la_math(d, "]")

process_la_formula(d) == la_math(d, ")")

\* usize arithmetic: a value is kept modulo 2^64, a negative number v standing
\* for the word 2^64 + v (so usize::MAX is -1)
wrapping_sub(x, y) == x - y

\* x + y leaves the range of usize
add_overflows(x, y) == x < 0 /\ x + y >= 0

process_la_macro(d0) ==
    LET newline_after(d) == IF peek_char(d) = "\n" THEN track_newline(advance(d)) ELSE d
        arg_done(d) ==
            IF d.args_count = 0 THEN set_state(newline_after(d), "Normal") ELSE d
        closed(d) ==
            IF d.open_braces = 0
            THEN arg_done([d EXCEPT !.args_count = saturating_sub(d.args_count, 1)])
            ELSE d
        on(r) ==
            IF r.c = "[" THEN set_state(r.d, "LaOptArg")
            ELSE IF r.c = "{" THEN [r.d EXCEPT !.open_braces = r.d.open_braces + 1]
            ELSE IF r.c = "}"
                 THEN closed([r.d EXCEPT !.open_braces = saturating_sub(r.d.open_braces, 1)])
            ELSE IF r.c = "\n" THEN track_newline(r.d)
            ELSE r.d
    IN  on(next_char(d0))

\* the optional-argument states going to Normal at the closing bracket
la_opt_arg_closed(d, back) ==
    LET on(r) ==
            IF r.c = "]" THEN set_state(r.d, "Normal")
            ELSE IF r.c = "\n" THEN track_newline(r.d)
            ELSE r.d
    IN  on(next_char(d))

\* LaOptArg (back = "LaMacro") and LaOptArg2 (back = "LaMacro2")
la_opt_arg(d, back) ==
    LET on(r) ==
            IF r.c = "]" THEN set_state(r.d, back)
            ELSE IF r.c = "\n" THEN track_newline(r.d)
            ELSE r.d
    IN  on(next_char(d))

process_la_opt_arg(d) == la_opt_arg(d, "LaMacro")

process_la_opt_arg2(d) == la_opt_arg(d, "LaMacro2")

\* self.open_braces += 1 panics with overflow checks and wraps without them
process_la_macro2(d0) ==
    LET open(d) ==
            IF add_overflows(d.open_braces, 1) /\ d.overflow_checks
            THEN [d EXCEPT !.panicked = TRUE]
            ELSE [d EXCEPT !.open_braces = d.open_braces + 1]
        arg(d) ==
            IF d.args_count = 0
            THEN [d EXCEPT !.state = "Normal", !.open_braces = wrapping_sub(d.open_braces, 1)]
            ELSE d
        brace(d) ==
            IF d.open_braces = 0
            THEN open(arg([d EXCEPT !.args_count = saturating_sub(d.args_count, 1)]))
            ELSE open(d)
        on(r) ==
            IF r.c = "[" THEN set_state(r.d, "LaOptArg2")
            ELSE IF r.c = "{" THEN brace(r.d)
            ELSE IF r.c = "}"
                 THEN [r.d EXCEPT !.open_braces = saturating_sub(r.d.open_braces, 1)]
            ELSE IF r.c = "\n" THEN track_newline(r.d)
            ELSE r.d
    IN  on(next_char(d0))

\* what a failed match has consumed stays consumed; after "\end{verbatim" the
\* closing brace is optional
process_la_verbatim(d) ==
    LET name(m) ==
            IF m.ok
            THEN ignore(set_state(try_match(skip_whitespace(m.d), <<"}">>).d, "Normal"))
            ELSE write(m.d, <<"\\">>)
        brace(m) ==
            IF m.ok
            THEN name(try_match(skip_whitespace(m.d), <<"v","e","r","b","a","t","i","m">>))
            ELSE write(m.d, <<"\\">>)
        end(m) ==
            IF m.ok THEN brace(try_match(skip_whitespace(m.d), <<"{">>))
            ELSE write(m.d, <<"\\">>)
        on(r) ==
            IF r.c = None THEN r.d
            ELSE IF r.c = "\\" THEN end(try_match(r.d, <<"e","n","d">>))
            ELSE echo(r.d, r.c)
    IN  on(next_char(d))

\* the whitespace after the closing brace, through the first newline
RECURSIVE picture_trailing(_)
picture_trailing(d) ==
    IF is_whitespace(peek_char(d))
    THEN IF peek_char(d) = "\n" THEN advance(d) ELSE picture_trailing(advance(d))
    ELSE d

\* the picture name up to a brace; [name, d]
RECURSIVE picture_name(_, _)
picture_name(d, name) ==
    IF peek_char(d) \in {None, "{", "}"} THEN [name |-> name, d |-> d]
    ELSE picture_name(advance(d), Append(name, peek_char(d)))

process_la_picture(d) ==
    LET write_picture(p) ==
            write(p.d, <<"<","P","i","c","t","u","r","e"," ">> \o p.name \o <<">">>)
        on(r) ==
            IF r.c = None THEN set_state(r.d, "Normal")
            ELSE IF r.c = "{" THEN r.d
            ELSE IF r.c = "}" THEN picture_trailing(set_state(r.d, "Normal"))
            ELSE IF r.d.opts.show_pictures THEN write_picture(picture_name(r.d, <<r.c>>))
            ELSE r.d
    IN  on(next_char(d))

process_next(d) ==
    IF d.state = "Normal" THEN process_normal(d)
    ELSE IF d.state = "Define" THEN process_define(d)
    ELSE IF d.state = "Display" THEN process_display(d)
    ELSE IF d.state = "IncludeOnly" THEN process_include_only(d)
    ELSE IF d.state = "Input" THEN process_input(d)
    ELSE IF d.state = "Math" THEN process_math(d)
    ELSE IF d.state = "Control" THEN process_control(d)
    ELSE IF d.state = "LaDisplay" THEN process_la_display(d)
    ELSE IF d.state = "LaEnd" THEN process_la_end(d)
    ELSE IF d.state = "LaEnv" THEN process_la_env(d)
    ELSE IF d.state = "LaFormula" THEN process_la_formula(d)
    ELSE IF d.state = "LaInclude" THEN process_la_include(d)
    ELSE IF d.state = "LaMacro" THEN process_la_macro(d)
    ELSE IF d.state = "LaOptArg" THEN process_la_opt_arg(d)
    ELSE IF d.state = "LaMacro2" THEN process_la_macro2(d)
    ELSE IF d.state = "LaOptArg2" THEN process_la_opt_arg2(d)
    ELSE IF d.state = "LaVerbatim" THEN process_la_verbatim(d)
    ELSE process_la_picture(d)

(***************************************************************************)
(* The driver: main's loop over the files, process_file and process        *)
(***************************************************************************)
DEFAULT_ENV ==
    <<"algorithm", "align", "array", "bmatrix", "displaymath", "eqnarray", "equation",
      "floatfig", "floating", "longtable", "picture", "pmatrix", "psfrags", "pspicture",
      "smallmatrix", "smallpmatrix", "tabular", "tikzpicture", "verbatim", "vmatrix",
      "wrapfigure">>

\* Options::default() after setup_input_paths() with TEXINPUTS unset
DefaultOptions ==
    [cite |-> FALSE, latex |-> FALSE, no_follow |-> FALSE, space |-> FALSE,
     force_tex |-> FALSE, word |-> FALSE, src_loc |-> FALSE, show_pictures |-> FALSE,
     replace |-> FALSE, env_ignore |-> DEFAULT_ENV, include_list |-> <<>>,
     input_paths |-> << <<".">>,
                        <<"/","u","s","r","/","l","o","c","a","l","/","t","e","x","/",
                          "i","n","p","u","t","s">> >>]

\* Options::with_env_ignore, the list of -e already split at the commas
with_env_ignore(o, env_list) ==
    [o EXCEPT !.env_ignore = SelectSeq(env_list, LAMBDA s : s # "")]

\* Detex::new, with the environment the run has
New(o, fs, tops, checks) ==
    /\ opts = o
    /\ state = "Normal"
    /\ output = <<>>
    /\ file_stack = <<>>
    /\ current_ignored_env = ""
    /\ open_braces = 0
    /\ args_count = 0
    /\ current_braces_level = 0
    /\ footnote_level = -100
    /\ at_column_zero = TRUE
    /\ stderr = <<>>
    /\ files = fs
    /\ pending = tops
    /\ running = FALSE
    /\ result = "none"
    /\ overflow_checks = checks

Self ==
    [opts |-> opts, state |-> state, output |-> output, file_stack |-> file_stack,
     current_ignored_env |-> current_ignored_env, open_braces |-> open_braces,
     args_count |-> args_count, current_braces_level |-> current_braces_level,
     footnote_level |-> footnote_level, at_column_zero |-> at_column_zero,
     stderr |-> stderr, files |-> files, overflow_checks |-> overflow_checks,
     error |-> "", panicked |-> FALSE]

Commit(d) ==
    /\ opts' = d.opts
    /\ state' = d.state
    /\ output' = d.output
    /\ file_stack' = d.file_stack
    /\ current_ignored_env' = d.current_ignored_env
    /\ open_braces' = d.open_braces
    /\ args_count' = d.args_count
    /\ current_braces_level' = d.current_braces_level
    /\ footnote_level' = d.footnote_level
    /\ at_column_zero' = d.at_column_zero
    /\ stderr' = d.stderr

\* main's loop body: detex.process_file(&file), up to the call of process();
\* an Err of process_file is reported before anything is pushed
ProcessFile ==
    LET opened(filename, path) ==
            IF path = None \/ files[path] = Unreadable
            THEN /\ result' = "Err"
                 /\ Commit(eprintln(Self, "warning"))
                 /\ UNCHANGED running
            ELSE /\ result' = "none"
                 /\ running' = TRUE
                 /\ Commit(set_state(push_file(Self, files[path], filename), "Normal"))
    IN  /\ ~running
        /\ result # "panic"
        /\ pending # <<>>
        /\ pending' = Tail(pending)
        /\ opened(Head(pending), tex_open(files, Head(pending), opts))
        /\ UNCHANGED <<files, overflow_checks>>

\* the pop of an exhausted source putting the lexer back in Normal state
PopSourceReset ==
    /\ running
    /\ file_stack # <<>>
    /\ is_eof(current_source(Self))
    /\ file_stack' = SubSeq(file_stack, 1, Len(file_stack) - 1)
    /\ state' = "Normal"
    /\ running' = (Len(file_stack) > 1)
    /\ result' = IF Len(file_stack) > 1 THEN result ELSE "Ok"
    /\ UNCHANGED <<opts, output, current_ignored_env, open_braces, args_count,
                   current_braces_level, footnote_level, at_column_zero, stderr, files,
                   pending, overflow_checks>>

\* process(): the top source is exhausted; with the stack empty process returns Ok
PopSource ==
    /\ running
    /\ file_stack # <<>>
    /\ is_eof(current_source(Self))
    /\ file_stack' = SubSeq(file_stack, 1, Len(file_stack) - 1)
    /\ running' = (Len(file_stack) > 1)
    /\ result' = IF Len(file_stack) > 1 THEN result ELSE "Ok"
    /\ UNCHANGED <<opts, state, output, current_ignored_env, open_braces, args_count,
                   current_braces_level, footnote_level, at_column_zero, stderr, files,
                   pending, overflow_checks>>

\* process(): one process_next call; an Err or a panic leaves the loop
ProcessNext ==
    LET returned(d) ==
            /\ Commit(d)
            /\ running' = (~d.panicked /\ d.error = "")
            /\ result' = IF d.panicked THEN "panic"
                         ELSE IF d.error # "" THEN "Err"
                         ELSE result
    IN  /\ running
        /\ file_stack # <<>>
        /\ ~is_eof(current_source(Self))
        /\ returned(process_next(Self))
        /\ UNCHANGED <<files, pending, overflow_checks>>

Next == ProcessFile \/ PopSource \/ ProcessNext

(***************************************************************************)
(* Inputs                                                                  *)
(***************************************************************************)
\* the sequences of at most n elements of S
SeqsUpTo(S, n) == UNION {[1..k -> S] : k \in 0..n}

RECURSIVE Flatten(_)
Flatten(ss) == IF ss = <<>> THEN <<>> ELSE Head(ss) \o Flatten(Tail(ss))

Contains(s, c) == \E i \in 1..Len(s) : s[i] = c

\* sub occurs in s at position i
OccursAt(s, sub, i) == i + Len(sub) - 1 <= Len(s) /\ SubSeq(s, i, i + Len(sub) - 1) = sub

Occurs(s, sub) == \E i \in 1..Len(s) : OccursAt(s, sub, i)

MainName == <<"m">>
MainPath == "./m.tex"

\* the characters of the top source still to be read, in reading order
Unread(s) ==
    [i \in 1..Len(s.pushback) |-> s.pushback[Len(s.pushback) + 1 - i]]
        \o SubSeq(s.buffer, s.pos + 1, Len(s.buffer))

(***************************************************************************)
(* Plain prose: one document over PlainChars, default options              *)
(***************************************************************************)
MaxPlainLen == 3

PlainChars ==
    {"a", "'", ",", "-", "!", "1", " ", "\n", "%", "{", "}", "|", "~", "$", "\\", Backtick}

InitPlain ==
    \E doc \in SeqsUpTo(PlainChars, MaxPlainLen) :
        New(DefaultOptions, MainPath :> doc, <<MainName>>, TRUE)

SpecPlain == InitPlain /\ [][Next]_vars

\* the main document
Doc == files[MainPath]

\* c is followed by itself somewhere in s
Doubled(s, c) == \E i \in 1..(Len(s) - 1) : s[i] = c /\ s[i + 1] = c

\* the precondition of the claim as written: no backslash, no '$' and none of
\* the punctuation substitutions
NoSubstitution(s) ==
    /\ \A c \in {"\\", "$", "~", Backtick} : ~Contains(s, c)
    /\ \A c \in {"-", "'", ","} : ~Doubled(s, c)

\* in addition no comment, no brace and no '|'
PlainProse(s) == NoSubstitution(s) /\ \A c \in {"%", "{", "}", "|"} : ~Contains(s, c)

\* C1 as written: with default flags a document without backslash, '$' and
\* punctuation substitutions is written out character for character.
C1_IdentityAsClaimed == (result = "Ok" /\ NoSubstitution(Doc)) => output = Doc

\* C1 (amended): with default flags a document without backslash, '$',
\* punctuation substitutions, '%', braces and '|' is written out character for
\* character: at every step the output followed by the unread input is the
\* document, and at the end the output is the document.
C1_PlainIdentity ==
    PlainProse(Doc) =>
        /\ running => output \o Unread(current_source(Self)) = Doc
        /\ result = "Ok" => output = Doc

\* a plain document with an apostrophe and a hyphen has been processed whole
C1_Witness ==
    /\ result = "Ok"
    /\ PlainProse(Doc)
    /\ Len(Doc) >= 3
    /\ Contains(Doc, "'") /\ Contains(Doc, "-")
    /\ output = Doc

(***************************************************************************)
(* Ignored environments: \begin{NAME} X \end{NAME} in LaTeX mode, X a      *)
(* sequence of tokens                                                      *)
(***************************************************************************)
MaxBodyTokens == 4

BeginText == <<"\\", "b", "e", "g", "i", "n">>
EndText == <<"\\", "e", "n", "d">>

\* the options of -l, and of -l -e q,document,table,verbatim
LatexOptions == [DefaultOptions EXCEPT !.latex = TRUE]
LatexOptionsE == with_env_ignore(LatexOptions, <<"q", "", "document", "table", "verbatim">>)

\* an option record with a name of its ignore list
EnvCases ==
    {<<LatexOptions, <<"a", "r", "r", "a", "y">> >>,
     <<LatexOptionsE, <<"q">> >>,
     <<LatexOptionsE, <<"t", "a", "b", "l", "e">> >>,
     <<LatexOptionsE, <<"d", "o", "c", "u", "m", "e", "n", "t">> >>}

BodyTokens(name) == {EndText, <<"{">>, <<"}">>, <<"[">>, name, <<"x">>, <<" ">>}

Wrap(name, body) ==
    BeginText \o <<"{">> \o name \o <<"}">> \o body \o EndText \o <<"{">> \o name \o <<"}">>

InitEnv ==
    \E ec \in EnvCases : \E toks \in SeqsUpTo(BodyTokens(ec[2]), MaxBodyTokens) :
        New(ec[1], MainPath :> Wrap(ec[2], Flatten(toks)), <<MainName>>, TRUE)

SpecEnv == InitEnv /\ [][Next]_vars

\* the letters and '@' of s from position i on
RECURSIVE NameAt(_, _)
NameAt(s, i) ==
    IF i <= Len(s) /\ (is_ascii_alphabetic(s[i]) \/ s[i] = "@")
    THEN <<s[i]>> \o NameAt(s, i + 1)
    ELSE <<>>

\* NAME and X of the document \begin{NAME} X \end{NAME}
EnvName == NameAt(Doc, 8)
Body == SubSeq(Doc, 9 + Len(EnvName), Len(Doc) - 6 - Len(EnvName))

EnvIgnored == \E i \in 1..Len(opts.env_ignore) : opts.env_ignore[i] = Str(EnvName)

\* every \end of s is followed at once by {OTHER}, OTHER a name that is not name
EndsOnlyOthers(s, name) ==
    \A i \in 1..Len(s) :
        OccursAt(s, EndText, i) =>
            /\ i + 4 <= Len(s)
            /\ s[i + 4] = "{"
            /\ NameAt(s, i + 5) # name
            /\ i + 5 + Len(NameAt(s, i + 5)) <= Len(s)
            /\ s[i + 5 + Len(NameAt(s, i + 5))] = "}"

\* C2 as written: in LaTeX mode with space replacement off, for NAME in the
\* ignore list and X without \end{NAME}, no character of X is written (the
\* letter x occurs in X only).
C2_SuppressedAsClaimed ==
    (is_latex(opts) /\ ~opts.space /\ EnvIgnored
        /\ ~Occurs(Body, EndText \o <<"{">> \o EnvName \o <<"}">>))
    => ~Contains(output, "x")

\* C2 (amended): in LaTeX mode with space replacement off, for NAME a name of
\* letters in the ignore list other than document, and X in which every \end
\* is followed at once by {OTHER} with OTHER a name other than NAME, processing
\* \begin{NAME} X \end{NAME} writes nothing at all, at any step.
C2_Suppressed ==
    (is_latex(opts) /\ ~opts.space /\ EnvIgnored /\ Str(EnvName) # "document"
        /\ EndsOnlyOthers(Body, EnvName))
    => output = <<>>

\* an ignored environment holding text and the end of a nested environment
\* has been processed to the end
C2_Witness ==
    /\ result = "Ok"
    /\ is_latex(opts) /\ ~opts.space /\ EnvIgnored /\ Str(EnvName) # "document"
    /\ EndsOnlyOthers(Body, EnvName)
    /\ Occurs(Body, EndText \o <<"{", "x", "}">>)
    /\ state = "Normal"
    /\ current_ignored_env = Str(EnvName)
    /\ output = <<>>

(***************************************************************************)
(* Verbatim: \begin{verbatim} X \end{verbatim} in LaTeX mode, with         *)
(* verbatim in the ignore list (the default) and without (-e q)            *)
(***************************************************************************)
MaxVerbTokens == 4

VerbatimText == <<"v", "e", "r", "b", "a", "t", "i", "m">>

VerbTokens ==
    {EndText, <<"{">>, <<"}">>, <<"i", "t", "e", "m", "i", "z", "e">>,
     <<"g", "r", "o", "u", "p">>, <<"x">>, <<" ">>, <<"\\">>}

InitVerbatim ==
    \E o \in {LatexOptions, with_env_ignore(LatexOptions, <<"q">>)} :
        \E toks \in SeqsUpTo(VerbTokens, MaxVerbTokens) :
            New(o, MainPath :> Wrap(VerbatimText, Flatten(toks)), <<MainName>>, TRUE)

SpecVerbatim == InitVerbatim /\ [][Next]_vars

\* C3 as written: in LaTeX mode the content between \begin{verbatim} and the
\* first \end{verbatim} is written unchanged and in order when verbatim is not
\* in the ignore list, and not at all when it is.
C3_VerbatimAsClaimed ==
    (result = "Ok" /\ ~Occurs(Body, EndText \o <<"{">> \o VerbatimText \o <<"}">>))
    => output = IF EnvIgnored THEN <<>> ELSE Body

(***************************************************************************)
(* Footnotes: \footnote{ X }z with X a sequence of brace-balanced tokens,  *)
(* in TeX and in LaTeX mode, with and without overflow checks              *)
(***************************************************************************)
MaxNoteTokens == 3

FootnoteText == <<"\\", "f", "o", "o", "t", "n", "o", "t", "e">>

NoteTokens ==
    {<<"a">>, <<"{", "b", "}">>, <<"\\", "a", "e">>,
     <<"\\", "r", "a", "i", "s", "e", "b", "o", "x", "{", "1", "}", "{", "b", "}">>,
     <<"\\", "i", "n", "p", "u", "t", "{", "f", "}">>,
     BeginText \o <<"{", "q", "}", "x">> \o EndText \o <<"{", "q", "}">>}

NoteFiles(doc) == (MainPath :> doc) @@ ("./f.tex" :> <<"y">>)

InitFootnote ==
    \E o \in {DefaultOptions, LatexOptionsE} : \E checks \in BOOLEAN :
        \E toks \in SeqsUpTo(NoteTokens, MaxNoteTokens) :
            New(o, NoteFiles(FootnoteText \o <<"{">> \o Flatten(toks) \o <<"}", "z">>),
                <<MainName>>, checks)

SpecFootnote == InitFootnote /\ [][Next]_vars

\* the number of characters of the main document read so far
Consumed ==
    IF file_stack = <<>> THEN Len(Doc)
    ELSE Len(Doc) - Len(Unread(file_stack[1].source))

\* the position of the brace that closes the footnote
ClosePos == Len(Doc) - 1

\* C4 as written: the closing parenthesis of a footnote is in the output
\* exactly from the moment the brace that matches the footnote's opening
\* brace has been read, for every brace-balanced content.
C4_CloseAsClaimed ==
    (running \/ result = "Ok") => (Contains(output, ")") <=> Consumed >= ClosePos)

(***************************************************************************)
(* Punctuation: one document over quotes, hyphens and letters, with and    *)
(* without -1 and -l                                                       *)
(***************************************************************************)
MaxPunctLen == 4

PunctChars == {"'", ",", Backtick, "-", "a", "\n"}

PunctOptions ==
    {[DefaultOptions EXCEPT !.src_loc = loc, !.latex = l] : loc \in BOOLEAN, l \in BOOLEAN}

InitPunct ==
    \E o \in PunctOptions : \E doc \in SeqsUpTo(PunctChars, MaxPunctLen) :
        New(o, MainPath :> doc, <<MainName>>, TRUE)

SpecPunct == InitPunct /\ [][Next]_vars

\* the characters of the top source still to be read
Rest == Unread(current_source(Self))

\* process_next is about to read, in Normal state, a token that starts with c
Reading(c) ==
    /\ running /\ file_stack # <<>> /\ state = "Normal"
    /\ Rest # <<>> /\ Head(Rest) = c

\* c is followed by itself
Twice(c) == Len(Rest) >= 2 /\ Rest[2] = c

\* what -1 writes in front of the first character echoed on a line
LocPrefix ==
    IF opts.src_loc /\ at_column_zero
    THEN current_filename(Self) \o <<":">> \o decimal(current_line(Self)) \o <<":", " ">>
    ELSE <<>>

\* C5: in Normal state without word-only mode, a token that starts with a
\* doubled backtick, a doubled ' or a doubled , writes exactly one " and
\* consumes both characters; a backtick not followed by a backtick writes ';
\* a single ' or , is written unchanged (after the location prefix of -1 at
\* the start of a line) and the character after it is left unread.
C5_QuoteStep ==
    \A c \in {Backtick, "'", ","} :
        (Reading(c) /\ ~opts.word) =>
            IF Twice(c)
            THEN output' = output \o <<"\"">> /\ Rest' = SubSeq(Rest, 3, Len(Rest))
            ELSE IF c = Backtick
            THEN output' = output \o <<"'">> /\ Rest' = Tail(Rest)
            ELSE output' = output \o LocPrefix \o <<c>> /\ Rest' = Tail(Rest)

C5_Quotes == [][C5_QuoteStep]_vars

\* a doubled comma, a lone backtick and a single ' have been processed
C5_Witness ==
    /\ result = "Ok"
    /\ ~opts.word
    /\ Doc = <<",", ",", Backtick, "'">>
    /\ output = <<"\"", "'", "'">>

\* the number of occurrences of c in s
RECURSIVE Count(_, _)
Count(s, c) ==
    IF s = <<>> THEN 0 ELSE (IF Head(s) = c THEN 1 ELSE 0) + Count(Tail(s), c)

\* the length of the run of c that s starts with
RECURSIVE LeadRun(_, _)
LeadRun(s, c) == IF s # <<>> /\ Head(s) = c THEN 1 + LeadRun(Tail(s), c) ELSE 0

\* one hyphen for every three of each maximal run of hyphens of s, and one
\* for a remainder of one or two
RECURSIVE DashesOfRuns(_)
DashesOfRuns(s) ==
    IF s = <<>> THEN 0
    ELSE IF Head(s) # "-" THEN DashesOfRuns(Tail(s))
    ELSE (LeadRun(s, "-") + 2) \div 3
            + DashesOfRuns(SubSeq(s, LeadRun(s, "-") + 1, Len(s)))

\* the hyphens of s are one maximal run
OneRun(s) ==
    \E i \in 1..Len(s) : \A j \in 1..Len(s) :
        s[j] = "-" <=> (i <= j /\ j < i + Count(s, "-"))

\* C6 as written: without word-only mode a maximal run of three or more
\* hyphens writes exactly one hyphen.
C6_OneDashAsClaimed ==
    (result = "Ok" /\ ~opts.word /\ OneRun(Doc) /\ Count(Doc, "-") >= 3)
    => Count(output, "-") = 1

\* C6 (amended): without word-only mode every maximal run of k hyphens writes
\* one hyphen for each three hyphens of the run and one more for a remainder
\* of one or two: a run of one, two or three writes one hyphen, a run of four
\* writes two.
C6_Dashes ==
    (result = "Ok" /\ ~opts.word) => Count(output, "-") = DashesOfRuns(Doc)

\* a run of four hyphens has been processed and has written two
C6_Witness ==
    /\ result = "Ok"
    /\ ~opts.word
    /\ Doc = <<"-", "-", "-", "-">>
    /\ Count(output, "-") = 2

(***************************************************************************)
(* Word-only mode (-w): one document of tokens, with and without -l, -r    *)
(***************************************************************************)
MaxWordTokens == 3

WordTokens ==
    {<<"H", "i">>, <<"i", "t", "'", "s">>, <<",">>, <<" ">>, <<"!">>, <<"1", "2">>,
     <<"$">>, <<"}">>, FootnoteText \o <<"{">>, <<"\\", "v", "e", "r", "b", "|">>}

WordOptions ==
    {[DefaultOptions EXCEPT !.word = TRUE, !.latex = l, !.replace = r] :
        l \in BOOLEAN, r \in BOOLEAN}

InitWord ==
    \E o \in WordOptions : \E toks \in SeqsUpTo(WordTokens, MaxWordTokens) :
        New(o, MainPath :> Flatten(toks), <<MainName>>, TRUE)

SpecWord == InitWord /\ [][Next]_vars

\* s is a sequence of lines, each one word of letters with apostrophes
\* inside it, followed by a newline
WordLines(s) ==
    /\ s # <<>> => s[Len(s)] = "\n"
    /\ \A i \in 1..Len(s) :
        \/ is_ascii_alphabetic(s[i])
        \/ s[i] = "\n" /\ i > 1 /\ is_ascii_alphabetic(s[i - 1])
        \/ /\ s[i] = "'"
           /\ i > 1 /\ is_ascii_alphabetic(s[i - 1])
           /\ i < Len(s) /\ is_ascii_alphabetic(s[i + 1])

\* C7 as written: in word-only mode the output is, for every input, lines of
\* one alphabetic word each; nothing else is ever written.
C7_WordsOnlyAsClaimed == opts.word => WordLines(output)

(***************************************************************************)
(* \verb: an optional open brace, \verb and a few characters, in TeX and   *)
(* in LaTeX mode                                                           *)
(***************************************************************************)
MaxVerbLen == 4

VerbText == <<"\\", "v", "e", "r", "b">>

VerbChars == {"|", "a", "$", "\\", "{", "\n", "\t", NUL}

InitVerb ==
    \E l \in BOOLEAN : \E pre \in {<<>>, <<"{">>} :
        \E tail \in SeqsUpTo(VerbChars, MaxVerbLen) :
            New([DefaultOptions EXCEPT !.latex = l], MainPath :> pre \o VerbText \o tail,
                <<MainName>>, TRUE)

SpecVerb == InitVerb /\ [][Next]_vars

\* the delimiter after the \verb that Rest starts with, and the position of
\* its next occurrence
VerbDelim == Rest[6]
VerbClose ==
    CHOOSE j \in 7..Len(Rest) :
        Rest[j] = VerbDelim /\ \A k \in 7..(j - 1) : Rest[k] # VerbDelim

\* process_next is about to read \verb d t d, t without d, newline and NUL
AtVerb ==
    /\ Reading("\\")
    /\ Len(Rest) >= 7
    /\ SubSeq(Rest, 1, 5) = VerbText
    /\ \E j \in 7..Len(Rest) : Rest[j] = VerbDelim
    /\ \A k \in 7..(VerbClose - 1) : Rest[k] \notin {"\n", NUL}

\* the text t is written as it is, state and brace depth stay as they are
VerbWritten ==
    /\ output' = output \o SubSeq(Rest, 7, VerbClose - 1)
    /\ state' = "Normal"
    /\ current_braces_level' = current_braces_level

\* the document is \verb d t d, t without d, newline and NUL
VerbDoc ==
    /\ Len(Doc) >= 7
    /\ SubSeq(Doc, 1, 5) = VerbText
    /\ Doc[Len(Doc)] = Doc[6]
    /\ \A k \in 7..(Len(Doc) - 1) : Doc[k] \notin {Doc[6], "\n", NUL}

\* C8 as written: a document \verb d t d writes exactly t and leaves the
\* state Normal and the brace depth unchanged, whatever the mode and the
\* delimiter.
C8_VerbAsClaimed ==
    (VerbDoc /\ ~running /\ result # "none")
    => /\ result = "Ok"
       /\ output = SubSeq(Doc, 7, Len(Doc) - 1)
       /\ state = "Normal"
       /\ current_braces_level = 0

\* C8 (amended): in LaTeX mode, \verb followed by a delimiter d that is not a
\* letter, not @ and not a control character below space, a text t without d,
\* newline and NUL, and d again writes exactly t, consumes through the closing
\* d, and leaves the state Normal and the brace depth unchanged.
C8_VerbStep ==
    (/\ AtVerb
     /\ is_latex(opts)
     /\ ~is_ascii_alphabetic(VerbDelim) /\ VerbDelim # "@"
     /\ ~less_than_space(VerbDelim))
    => (VerbWritten /\ Rest' = SubSeq(Rest, VerbClose + 1, Len(Rest)))

C8_Verb == [][C8_VerbStep]_vars

\* inside a brace group \verb|$\| has written the dollar and the backslash
C8_Witness ==
    /\ result = "Ok"
    /\ is_latex(opts)
    /\ Doc = <<"{">> \o VerbText \o <<"|", "$", "\\", "|">>
    /\ output = <<"$", "\\">>
    /\ state = "Normal"
    /\ current_braces_level = 1

\* the document is \verb d t with d not below space, and t has no d: it
\* reaches a newline, a NUL or the end of the input before a closing d
Unterminated ==
    /\ Len(Doc) >= 6
    /\ SubSeq(Doc, 1, 5) = VerbText
    /\ ~is_ascii_alphabetic(Doc[6]) /\ ~less_than_space(Doc[6])
    /\ \A k \in 7..Len(Doc) : Doc[k] # Doc[6]

\* C9 as written: in LaTeX mode, when the input after \verb and its delimiter
\* reaches a newline, a NUL or the end of the input before the closing
\* delimiter, process() returns the unterminated-verb error.
C9_UnterminatedAsClaimed ==
    (is_latex(opts) /\ Unterminated /\ ~running /\ result # "none") => result = "Err"

(***************************************************************************)
(* Inclusion: PRE \input{g} TAIL and PRE \include{g} TAIL, with g.tex      *)
(* absent, unreadable or present, in TeX and in LaTeX mode                 *)
(***************************************************************************)
MaxTailLen == 3

InputText == <<"\\", "i", "n", "p", "u", "t">>
IncludeText == <<"\\", "i", "n", "c", "l", "u", "d", "e">>

GPath == "./g.tex"

InputFiles(doc) ==
    {MainPath :> doc,
     (MainPath :> doc) @@ (GPath :> Unreadable),
     (MainPath :> doc) @@ (GPath :> <<"y">>)}

InitInput ==
    \E l \in BOOLEAN : \E cmd \in {InputText, IncludeText} : \E pre \in {<<>>, <<"a">>} :
        \E tail \in SeqsUpTo({"a", "b", " "}, MaxTailLen) :
            \E fs \in InputFiles(pre \o cmd \o <<"{", "g", "}">> \o tail) :
                New([DefaultOptions EXCEPT !.latex = l], fs, <<MainName>>, TRUE)

SpecInput == InitInput /\ [][Next]_vars

\* g.tex cannot be opened, or cannot be read
GMissing == GPath \notin DOMAIN files \/ files[GPath] = Unreadable

\* the position of the first c in s
FirstPos(s, c) == CHOOSE i \in 1..Len(s) : s[i] = c /\ \A j \in 1..(i - 1) : s[j] # c

\* the text before the command and the text after its closing brace
InputPre == SubSeq(Doc, 1, FirstPos(Doc, "\\") - 1)
InputTail == SubSeq(Doc, FirstPos(Doc, "}") + 1, Len(Doc))

\* process_next is about to read the file name g in Input or LaInclude state
AtFileName ==
    /\ running /\ file_stack # <<>>
    /\ state \in {"Input", "LaInclude"}
    /\ Rest # <<>> /\ Head(Rest) = "g"

\* the step that reads the name of a missing file: no error, the stack keeps
\* its files, the state is Normal, a warning is printed and only the name has
\* been consumed
C10_MissingStep ==
    (AtFileName /\ GMissing) =>
        /\ running' /\ result' = result
        /\ Len(file_stack') = Len(file_stack)
        /\ \A i \in 1..Len(file_stack) : file_stack'[i].name = file_stack[i].name
        /\ state' = "Normal"
        /\ Len(stderr') = Len(stderr) + 1
        /\ output' = output
        /\ Rest' = Tail(Rest)

\* a run over a missing file ends with Ok and has written the text before
\* the command and all the text after it
C10_RestEmitted ==
    (GMissing /\ ~running /\ result # "none" /\ (Occurs(Doc, InputText) \/ is_latex(opts)))
    => (result = "Ok" /\ output = InputPre \o InputTail /\ file_stack = <<>>)

\* C10: when \input or \include names a file that cannot be opened or read,
\* input_file returns Ok, the file stack is left as it is, the state returns
\* to Normal, and the rest of the including document is processed and written.
C10_MissingFile == [][C10_MissingStep]_vars /\ []C10_RestEmitted

\* after \include of an unreadable file in LaTeX mode the rest has been written
C10_Witness ==
    /\ result = "Ok"
    /\ is_latex(opts)
    /\ GPath \in DOMAIN files /\ files[GPath] = Unreadable
    /\ Doc = <<"a">> \o IncludeText \o <<"{", "g", "}", "a", " ", "b">>
    /\ output = <<"a", "a", " ", "b">>
    /\ stderr # <<>>

(***************************************************************************)
(* Deep inclusion: m.tex inputs itself, in LaTeX mode, and is given once   *)
(* or twice on the command line                                            *)
(***************************************************************************)
DeepTails == {<<>>, <<"a">>, VerbText \o <<"|", "\n">>}

InitDeep ==
    \E tail \in DeepTails : \E tops \in {<<MainName>>, <<MainName, MainName>>} :
        New(LatexOptions, MainPath :> (InputText \o <<"{", "m", "}">> \o tail), tops, TRUE)

SpecDeep == InitDeep /\ [][Next]_vars

\* C11 as written: after any sequence of process_file calls and inclusion
\* directives the file stack never holds more than MAX_FILE_STACK entries.
C11_StackBoundAsClaimed == Len(file_stack) <= MAX_FILE_STACK

(***************************************************************************)
(* All lexer states: one document of command tokens in LaTeX mode with     *)
(* -e q, f.tex present, with and without overflow checks                   *)
(***************************************************************************)
MaxStateTokens == 3

StateTokens ==
    {<<"\\", "d", "e", "f">>, <<"$">>, <<"\\", "[">>, <<"\\", "(">>, <<"\\", "z", "z">>,
     <<"\\", "i", "n", "c", "l", "u", "d", "e", "o", "n", "l", "y">>,
     InputText, IncludeText,
     BeginText \o <<"{", "q", "}">>, BeginText \o <<"{">> \o VerbatimText \o <<"}">>, EndText,
     <<"\\", "r", "a", "i", "s", "e", "b", "o", "x">>,
     <<"\\", "i", "n", "c", "l", "u", "d", "e", "g", "r", "a", "p", "h", "i", "c", "s">>,
     <<"{">>, <<"}">>, <<"[">>, <<"f">>, <<"\n">>}

StateFiles(doc) == (MainPath :> doc) @@ ("./f.tex" :> <<"y">>)

InitStates ==
    \E toks \in SeqsUpTo(StateTokens, MaxStateTokens) :
        New(with_env_ignore(LatexOptions, <<"q">>), StateFiles(Flatten(toks)),
            <<MainName>>, TRUE)

SpecStates == InitStates /\ [][Next]_vars

\* the guards of ProcessFile and of ProcessNext: as long as one holds, main's
\* loop or process()'s loop makes the next call
FileEnabled == ~running /\ result # "panic" /\ pending # <<>>

CallEnabled == running /\ file_stack # <<>> /\ ~is_eof(current_source(Self))

\* ProcessNext can take a step that is not a stuttering step: the call changes
\* some field, or returns an error (which ends the loop)
CallMoves == CallEnabled /\ process_next(Self) # Self

\* main and process() are sequential loops that run as long as the process
\* does: weak fairness of each of the three steps.  For ProcessFile and
\* ProcessNext the condition WF_vars(A), that is
\* <>[](ENABLED <<A>>_vars) => []<><<A>>_vars, is written out with the
\* enabling condition as a state predicate: ProcessFile always shortens
\* pending, and a ProcessNext step changes vars exactly when CallMoves holds;
\* under [][Next]_vars a non-stuttering step from a state where the guard of
\* one action holds is a step of that action, the three guards being disjoint
LiveStates ==
    /\ SpecStates
    /\ WF_vars(PopSource)
    /\ (<>[]FileEnabled => []<><<FileEnabled>>_vars)
    /\ (<>[]CallMoves => []<><<CallEnabled>>_vars)

\* what a process_next call that returned d has consumed of the top source: it
\* read a character of it, pushed a file whose directive it read, or left the
\* loop with an error
ConsumesOf(d) ==
    \/ d.panicked
    \/ d.error # ""
    \/ Len(d.file_stack) > Len(file_stack)
    \/ Len(Unread(current_source(d))) < Len(Rest)

Consumes == ConsumesOf(process_next(Self))

C12_Step ==
    CallEnabled =>
        \/ ~running'
        \/ Len(file_stack') > Len(file_stack)
        \/ Len(Rest') < Len(Rest)
        \/ (state' # state /\ Consumes')

C12_OkEmpty == result = "Ok" => file_stack = <<>>

\* C12: every process_next call consumes at least one character of the top
\* source (or pushes a file, or leaves the loop with an error), or changes the
\* state so that the following call consumes one; when process() has returned
\* Ok the file stack is empty; and every run of main comes to an end, all
\* files processed or the process aborted by a panic.
C12_Terminates ==
    /\ [][C12_Step]_vars
    /\ []C12_OkEmpty
    /\ <>(~running /\ (pending = <<>> \/ result = "panic"))

\* process() has returned Ok on a document where a call in state Control met
\* `[`, put it back and only changed the state
C12_Witness ==
    /\ result = "Ok"
    /\ ~running
    /\ file_stack = <<>>
    /\ Doc = <<"\\", "z", "z", "[">>

(***************************************************************************)
(* Two documents on the command line: m.tex, which holds a \verb, then     *)
(* n.tex                                                                   *)
(***************************************************************************)
MaxAbortLen == 4

AbortChars == {"|", "a", "\n"}

OtherName == <<"n">>

AbortFiles(tail) == (MainPath :> (VerbText \o tail)) @@ ("./n.tex" :> <<"y">>)

InitAbort ==
    \E tail \in SeqsUpTo(AbortChars, MaxAbortLen) :
        New(LatexOptions, AbortFiles(tail), <<MainName, OtherName>>, TRUE)

SpecAbort == InitAbort /\ [][Next]_vars

\* the source that the next process_next call reads
TopName == file_stack[Len(file_stack)].name

\* C13 as written: once main has gone on to n.tex, whether m.tex was processed
\* to its end or aborted by the unterminated \verb, no process_next call
\* reads m.tex any more.
C13_AbortedAsClaimed == (pending = <<>> /\ CallEnabled) => TopName # MainName

(***************************************************************************)
(* Documents that say they are LaTeX, read without -l, with and without -t *)
(***************************************************************************)
MaxModeTokens == 3

DocumentText == <<"{", "d", "o", "c", "u", "m", "e", "n", "t", "}">>

DocumentclassText ==
    <<"\\", "d", "o", "c", "u", "m", "e", "n", "t", "c", "l", "a", "s", "s">>

DocumentstyleText ==
    <<"\\", "d", "o", "c", "u", "m", "e", "n", "t", "s", "t", "y", "l", "e">>

ModeTokens ==
    {BeginText \o DocumentText, DocumentclassText, DocumentstyleText,
     <<"{", "a", "}">>, <<"x">>, <<"\n">>, <<"$">>}

InitMode ==
    \E t \in BOOLEAN : \E toks \in SeqsUpTo(ModeTokens, MaxModeTokens) :
        New([DefaultOptions EXCEPT !.force_tex = t], MainPath :> Flatten(toks),
            <<MainName>>, TRUE)

SpecMode == InitMode /\ [][Next]_vars

\* process_next is about to read, in Normal state, the text t
ReadingText(t) == CallEnabled /\ state = "Normal" /\ OccursAt(Rest, t, 1)

\* C14 as written: unless -t is given, a process_next call that reads
\* \begin{document} in Normal state while LaTeX mode is not active leaves
\* LaTeX mode active.
C14_BeginAsClaimed ==
    [][(ReadingText(BeginText \o DocumentText) /\ ~opts.force_tex /\ ~is_latex(opts))
         => is_latex(opts')]_vars

(***************************************************************************)
(* LaTeX documents with \cite, \ref and \pageref, with and without -c      *)
(***************************************************************************)
MaxCiteTokens == 3

CiteText == <<"\\", "c", "i", "t", "e">>

RefText == <<"\\", "r", "e", "f">>

PagerefText == <<"\\", "p", "a", "g", "e", "r", "e", "f">>

CiteCommands == {CiteText, RefText, PagerefText}

KeyText == <<"{", "k", "}">>

CiteTokens == CiteCommands \cup {KeyText, <<"x">>, <<" ">>, <<"\n">>}

InitCite ==
    \E c \in BOOLEAN : \E toks \in SeqsUpTo(CiteTokens, MaxCiteTokens) :
        New([LatexOptions EXCEPT !.cite = c], MainPath :> Flatten(toks), <<MainName>>, TRUE)

SpecCite == InitCite /\ [][Next]_vars

\* the document has been processed to its end
Finished == ~running /\ pending = <<>> /\ result = "Ok"

\* the document holds one {k}, and it is the argument of cmd
KeyOf(cmd) ==
    /\ Occurs(Doc, cmd \o KeyText)
    /\ Count(Doc, "k") = 1

\* C15 as written: in LaTeX mode the key of \cite{k}, \ref{k} and \pageref{k}
\* is echoed with -c and discarded without it.
C15_CiteAsClaimed ==
    \A cmd \in CiteCommands :
        (Finished /\ KeyOf(cmd)) => (opts.cite <=> Contains(output, "k"))

(***************************************************************************)
(* Documents with \input, \include, \subfile and \includeonly, read with  *)
(* -n; g.tex exists                                                        *)
(***************************************************************************)
MaxFollowTokens == 3

SubfileText == <<"\\", "s", "u", "b", "f", "i", "l", "e">>

IncludeonlyText == IncludeText \o <<"o", "n", "l", "y">>

GArg == <<"{", "g", "}">>

Directives == {InputText, IncludeText, SubfileText}

FollowTokens == Directives \cup {IncludeonlyText, GArg, <<" ", "g">>, <<"x">>, <<"\n">>}

InitNoFollow ==
    \E l \in BOOLEAN : \E toks \in SeqsUpTo(FollowTokens, MaxFollowTokens) :
        New([DefaultOptions EXCEPT !.latex = l, !.no_follow = TRUE],
            (MainPath :> Flatten(toks)) @@ (GPath :> <<"y">>), <<MainName>>, TRUE)

SpecNoFollow == InitNoFollow /\ [][Next]_vars

\* the document names g, and every g of it is the {g} of one of the cmds
NamesOnly(cmds) ==
    /\ Contains(Doc, "g")
    /\ \A i \in 1..Len(Doc) :
           Doc[i] = "g" =>
               \E cmd \in cmds : i > Len(cmd) + 1 /\ OccursAt(Doc, cmd \o <<"{">>, i - Len(cmd) - 1)

\* a process_next call does not make the file stack deeper
C16_NoPush == CallEnabled => Len(file_stack') <= Len(file_stack)

\* C16 as written: with -n no process_next call makes the file stack deeper
\* or changes the include-only list, and a document whose only g are the
\* filenames of \input{g}, \include{g} and \subfile{g} is processed without
\* a g in the output.
C16_NoFollowAsClaimed ==
    /\ [][C16_NoPush /\ opts.include_list' = opts.include_list]_vars
    /\ []((Finished /\ NamesOnly(Directives)) => ~Contains(output, "g"))

\* the directives whose filename is read as one in the mode of the run:
\* \include and \subfile are directives in LaTeX mode only
DirectivesRead == IF is_latex(opts) THEN Directives ELSE {InputText}

\* a process_next call that reads one of the directives in Normal state enters
\* the state that reads its filename, and a call in that state writes no g
\* and leaves the state with no g in front of it
C16_FilenameStep ==
    /\ \A cmd \in DirectivesRead :
           ReadingText(cmd \o GArg) =>
               state' = (IF cmd = InputText THEN "Input" ELSE "LaInclude")
    /\ (CallEnabled /\ state \in {"Input", "LaInclude"}) =>
           /\ Count(output', "g") = Count(output, "g")
           /\ state' \in {state, "Normal"}
           /\ state' = "Normal" => (Rest' = <<>> \/ Head(Rest') # "g")

\* C16: with -n no process_next call makes the file stack deeper; the
\* include-only list never holds a filename (the close of \includeonly puts
\* one empty name in it); and the filename of an \input{g}, and in LaTeX mode
\* of an \include{g} or \subfile{g}, that is read in Normal state is
\* consumed by the state the directive enters without being written.
C16_NoFollow ==
    /\ [][C16_NoPush]_vars
    /\ [](opts.include_list \in {<<>>, << <<>> >>})
    /\ [][C16_FilenameStep]_vars

\* a LaTeX document with \include{g} has been processed to its end with
\* nothing written
C16_Witness ==
    /\ Finished
    /\ is_latex(opts)
    /\ Occurs(Doc, IncludeText \o GArg)
    /\ NamesOnly(Directives)
    /\ output = <<>>

(***************************************************************************)
(* LaTeX documents \includeonly{f1,..,fk}\include{g} and \input{g}; every  *)
(* file named exists and holds y                                           *)
(***************************************************************************)
MaxOnlyNames == 2

OnlyNames == {<<"g">>, <<"c", "/", "g">>, <<"g", ".", "x">>, <<"h">>}

OnlyFiles(doc) ==
    (MainPath :> doc) @@ (GPath :> <<"y">>) @@ ("./c/g.tex" :> <<"y">>)
        @@ ("./g.x" :> <<"y">>) @@ ("./h.tex" :> <<"y">>)

\* the names of a list with commas between them
RECURSIVE Joined(_)
Joined(list) ==
    IF list = <<>> THEN <<>>
    ELSE IF Len(list) = 1 THEN Head(list)
    ELSE Head(list) \o <<",">> \o Joined(Tail(list))

OnlyCases ==
    [list : SeqsUpTo(OnlyNames, MaxOnlyNames) \ {<<>>}, cmd : {IncludeText, InputText},
     g : OnlyNames]

OnlyDoc(case) ==
    IncludeonlyText \o <<"{">> \o Joined(case.list) \o <<"}">>
        \o case.cmd \o <<"{">> \o case.g \o <<"}">>

InitOnly ==
    \E case \in OnlyCases :
        New(LatexOptions, OnlyFiles(OnlyDoc(case)), <<MainName>>, TRUE)

SpecOnly == InitOnly /\ [][Next]_vars

\* a filename with its extension stripped
Stripped(f) == IF rfind(file_name(f), ".") > 1 THEN SubSeq(f, 1, rfind(f, ".") - 1) ELSE f

Listed(case) == \E i \in 1..Len(case.list) : Stripped(case.list[i]) = Stripped(case.g)

\* C17 as written: after \includeonly{f1,...,fk}, \include{g} is followed, and
\* the y of its file written, exactly when g with its extension stripped is
\* one of the listed names with its extension stripped; \input{g} is always
\* followed.
C17_IncludeOnlyAsClaimed ==
    \A case \in OnlyCases :
        (Finished /\ Doc = OnlyDoc(case)) =>
            (Contains(output, "y") <=> (case.cmd = InputText \/ Listed(case)))

(***************************************************************************)
(* One CharSource, the top of the file stack, under the calls the lexer    *)
(* makes on it: next, unget of the character read last, peek_ahead         *)
(***************************************************************************)
MaxSourceLen == 3

MaxPeekAhead == 3

SourceChars == {"a", "b", "\n", NonAscii}

InitSource ==
    \E content \in SeqsUpTo(SourceChars, MaxSourceLen) :
        /\ state = "Normal"
        /\ opts = DefaultOptions
        /\ output = <<>>
        /\ file_stack = <<[source |-> CharSource_new(content), name |-> MainName]>>
        /\ current_ignored_env = ""
        /\ open_braces = 0
        /\ args_count = 0
        /\ current_braces_level = 0
        /\ footnote_level = -100
        /\ at_column_zero = TRUE
        /\ stderr = <<>>
        /\ files = (MainPath :> content)
        /\ pending = <<>>
        /\ running = FALSE
        /\ result = "none"
        /\ overflow_checks = TRUE

Source == file_stack[Len(file_stack)].source

SourceBecomes(s) ==
    /\ file_stack' = [file_stack EXCEPT ![Len(file_stack)].source = s]
    /\ UNCHANGED <<opts, state, output, current_ignored_env, open_braces, args_count,
                   current_braces_level, footnote_level, at_column_zero, stderr, files,
                   pending, running, result, overflow_checks>>

\* how many characters have been read and not pushed back
ReadSoFar == Source.pos - Len(Source.pushback)

\* source.next()
SourceNext ==
    /\ file_stack # <<>>
    /\ SourceBecomes(next(Source).s)

\* source.unget(c) for c the character read last and not yet pushed back
SourceUnget ==
    /\ ReadSoFar > 0
    /\ SourceBecomes(unget(Source, Source.buffer[ReadSoFar]))

\* source.peek_ahead(n), the string returned kept in output
SourcePeekAhead ==
    \E n \in 0..MaxPeekAhead :
        /\ output' = peek_ahead(Source, n)
        /\ UNCHANGED <<opts, state, file_stack, current_ignored_env, open_braces,
                       args_count, current_braces_level, footnote_level, at_column_zero,
                       stderr, files, pending, running, result, overflow_checks>>

NextSource == SourceNext \/ SourceUnget \/ SourcePeekAhead

SpecSource == InitSource /\ [][NextSource]_vars

\* what the next min(n, remaining) calls of next() return
RECURSIVE NextChars(_, _)
NextChars(s, n) ==
    IF n = 0 \/ next(s).c = None THEN <<>>
    ELSE <<next(s).c>> \o NextChars(next(s).s, n - 1)

\* C18 as written: in every state of a CharSource and for every n,
\* peek_ahead(n) is the sequence of characters that the next min(n, remaining)
\* calls of next() return.
C18_PeekAheadAsClaimed ==
    \A n \in 0..MaxPeekAhead : peek_ahead(Source, n) = NextChars(Source, n)

\* next() returning c, then unget(c): the source as it is afterwards
Reread(r) == unget(r.s, r.c)

\* C19: in every state that next() and unget() of characters read before
\* lead to, next() returning c followed by unget(c) leaves the line counter
\* and the characters still to be read as they were; when the character read
\* last is a newline, unget of it followed by next() leaves the line counter
\* as it was; and line is 1 plus the number of newlines read and not pushed
\* back.
C19_LineAccounting ==
    /\ next(Source).c # None =>
          /\ Reread(next(Source)).line = Source.line
          /\ Unread(Reread(next(Source))) = Unread(Source)
    /\ (ReadSoFar > 0 /\ Source.buffer[ReadSoFar] = "\n") =>
          next(unget(Source, "\n")).s.line = Source.line
    /\ Source.line = 1 + Count(SubSeq(Source.buffer, 1, ReadSoFar), "\n")

\* two newlines and the character after them were read and all three pushed
\* back: the line counter is 1 again
C19_Witness ==
    /\ Len(Source.pushback) = 3
    /\ Source.pushback[3] = "\n"
    /\ Source.pushback[2] = "\n"
    /\ Source.line = 1

(***************************************************************************)
(* Documents read with -1: each kind of first emission of a line, with     *)
(* newlines and comments between them                                      *)
(***************************************************************************)
MaxLocTokens == 3

LocTokens ==
    {<<"a">>, <<"~">>, <<"-">>, <<"'", "'">>, <<Backtick, Backtick>>, <<"(">>, <<"\t">>,
     <<" ">>, <<"\n">>, <<"%", "c", "\n">>}

InitLoc ==
    \E l \in BOOLEAN : \E toks \in SeqsUpTo(LocTokens, MaxLocTokens) :
        New([DefaultOptions EXCEPT !.src_loc = TRUE, !.latex = l],
            MainPath :> Flatten(toks), <<MainName>>, TRUE)

SpecLoc == InitLoc /\ [][Next]_vars

\* a line of the output starts at position i
LineStart(i) == i = 1 \/ output[i - 1] = "\n"

\* the digits of the output from position i are followed by ": "
RECURSIVE DigitsThenColon(_)
DigitsThenColon(i) ==
    /\ i + 1 <= Len(output)
    /\ IF is_ascii_digit(output[i]) THEN DigitsThenColon(i + 1)
       ELSE output[i] = ":" /\ output[i + 1] = " "

\* the prefix `m:<line>: ` is at position i of the output
PrefixAt(i) ==
    /\ i + 2 <= Len(output)
    /\ output[i] = "m" /\ output[i + 1] = ":"
    /\ is_ascii_digit(output[i + 2])
    /\ DigitsThenColon(i + 2)

\* C20 as written: with -1, at every moment every non-empty line of the
\* output starts with the prefix `m:<line>: `, and the prefix is nowhere else.
C20_PrefixAsClaimed ==
    \A i \in 1..Len(output) :
        /\ (LineStart(i) /\ output[i] # "\n") => PrefixAt(i)
        /\ output[i] = "m" => (LineStart(i) /\ PrefixAt(i))

(***************************************************************************)
(* The reference scanner on \begin{document}: the flex rule of detex.l:214 *)
(* as the comments of the begin branch quote it.  The documents are one    *)
(* match of that rule, under the flag combinations of the comparison test  *)
(***************************************************************************)
MaxRefNewlines == 3

RefOptions ==
    {DefaultOptions,
     [DefaultOptions EXCEPT !.cite = TRUE],
     with_env_ignore(DefaultOptions, <<"q">>),
     [DefaultOptions EXCEPT !.replace = TRUE],
     [DefaultOptions EXCEPT !.space = TRUE],
     [DefaultOptions EXCEPT !.latex = TRUE, !.cite = TRUE, !.src_loc = TRUE]}

RefDocs ==
    {BeginText \o DocumentText \o [i \in 1..k |-> "\n"] : k \in 0..MaxRefNewlines}

InitRef ==
    \E o \in RefOptions : \E doc \in RefDocs :
        New(o, MainPath :> doc, <<MainName>>, TRUE)

SpecRef == InitRef /\ [][Next]_vars

\* What opendetex writes for a document of RefDocs.  The rule
\*   <Normal> "\\begin"{S}"{"{S}"document"{S}"}""\n"*   {LATEX; IGNORE;}
\* is the longest match at the start of the document and matches all of it,
\* in LaTeX mode or not; IGNORE writes a space with -s and nothing otherwise.
opendetex_begin_document(o) == IF o.space /\ ~o.word THEN <<" ">> ELSE <<>>

\* C21 as written: on every document and under every tested flag combination
\* the output of the program is the output of the reference scanner.
C21_ReferenceAsClaimed ==
    Finished => (output = opendetex_begin_document(opts) /\ stderr = <<>>)

(***************************************************************************)
(* The LaTeX-only states: documents of the commands that enter them, with  *)
(* LaTeX mode off, on (-l) and forced off (-t)                             *)
(***************************************************************************)
MaxLaTokens == 3

LaStates ==
    {"LaDisplay", "LaEnd", "LaEnv", "LaFormula", "LaInclude", "LaMacro", "LaOptArg",
     "LaMacro2", "LaOptArg2", "LaVerbatim", "LaPicture"}

LaTokens ==
    {DocumentclassText, <<"{", "a", "}">>, <<"\\", "[">>, <<"\\", "(">>,
     <<"\\", "r", "a", "i", "s", "e", "b", "o", "x">>,
     <<"\\", "i", "n", "c", "l", "u", "d", "e", "g", "r", "a", "p", "h", "i", "c", "s">>,
     BeginText \o <<"{", "q", "}">>, BeginText \o <<"{">> \o VerbatimText \o <<"}">>, EndText,
     IncludeText \o <<"{", "f", "}">>, <<"[">>}

LaOptions ==
    {with_env_ignore(DefaultOptions, <<"q">>),
     with_env_ignore(LatexOptions, <<"q">>),
     with_env_ignore([DefaultOptions EXCEPT !.force_tex = TRUE], <<"q">>)}

InitLa ==
    \E o \in LaOptions : \E toks \in SeqsUpTo(LaTokens, MaxLaTokens) :
        New(o, StateFiles(Flatten(toks)), <<MainName>>, TRUE)

SpecLa == InitLa /\ [][Next]_vars

\* C22: whenever the scanner is in one of the LaTeX-only states, LaTeX mode is
\* active (the latex flag is set and -t is not given).
C22_LaStatesLatex == (state \in LaStates) => is_latex(opts)

\* \documentclass read with LaTeX mode off: the mode is switched on and the
\* optional argument of the command is being skipped
C22_Witness ==
    /\ Doc = DocumentclassText \o <<"[">>
    /\ ~opts.force_tex
    /\ state = "LaOptArg"
    /\ Unread(current_source(Self)) = <<>>

(***************************************************************************)
(* Argument skipping: \documentclass (kill 1), \newcommand (kill 2) and    *)
(* \raisebox (strip 2) followed by braces, brackets and other characters,  *)
(* in LaTeX mode, in both builds                                           *)
(***************************************************************************)
MaxArgLen == 4

ArgChars == {"{", "}", "[", "]", "\\", "1", "\n"}

NewcommandText == <<"\\", "n", "e", "w", "c", "o", "m", "m", "a", "n", "d">>

RaiseboxText == <<"\\", "r", "a", "i", "s", "e", "b", "o", "x">>

KillCommands == {DocumentclassText, NewcommandText}

ArgCommands == KillCommands \cup {RaiseboxText}

InitArgs ==
    \E cmd \in ArgCommands : \E checks \in BOOLEAN :
        \E tail \in SeqsUpTo(ArgChars, MaxArgLen) :
            New(LatexOptions, MainPath :> (cmd \o tail), <<MainName>>, checks)

SpecArgs == InitArgs /\ [][Next]_vars

\* the command of the document, what follows it, and how much of that has
\* been read
ArgCommand == CHOOSE cmd \in ArgCommands : OccursAt(Doc, cmd, 1)

ArgTail == SubSeq(Doc, Len(ArgCommand) + 1, Len(Doc))

Skipped == Consumed - Len(ArgCommand)

\* the number of arguments the command table gives the command
ArgsOf(cmd) == IF cmd = DocumentclassText THEN 1 ELSE 2

\* The position in s, from i on, of the brace that closes the n-th top-level
\* group, braces being matched with each other and nothing else looked at;
\* 0 when there is none or when a closing brace has no opening one.
RECURSIVE GroupEnd(_, _, _, _)
GroupEnd(s, i, depth, n) ==
    IF i > Len(s) THEN 0
    ELSE IF s[i] = "{" THEN GroupEnd(s, i + 1, depth + 1, n)
    ELSE IF s[i] = "}"
         THEN IF depth = 0 THEN 0
              ELSE IF depth > 1 THEN GroupEnd(s, i + 1, depth - 1, n)
              ELSE IF n = 1 THEN i
              ELSE GroupEnd(s, i + 1, 0, n - 1)
    ELSE GroupEnd(s, i + 1, depth, n)

\* the end of what kill-args discards: the closing brace, and the newline
\* after it if there is one
KillEnd(s, p) == IF p < Len(s) /\ s[p + 1] = "\n" THEN p + 1 ELSE p

KilledAt(k, p, e) ==
    /\ (0 <= k /\ k < p) => (state \in {"LaMacro", "LaOptArg"} /\ output = <<>>)
    /\ (p <= k /\ k <= e) => (k = e /\ state = "Normal" /\ output = <<>>)

\* C23 as written: kill-args N discards exactly the input up to and including
\* the closing brace of the N-th top-level balanced group, whatever the groups
\* contain, and is back in Normal state there with one following newline
\* consumed and nothing written.
C23_KillAsClaimed ==
    (running /\ file_stack # <<>> /\ ArgCommand \in KillCommands
        /\ GroupEnd(ArgTail, 1, 0, ArgsOf(ArgCommand)) > 0)
    => KilledAt(Skipped, GroupEnd(ArgTail, 1, 0, ArgsOf(ArgCommand)),
                KillEnd(ArgTail, GroupEnd(ArgTail, 1, 0, ArgsOf(ArgCommand))))

\* The position in s, from i on, of the bracket that closes the optional
\* argument, by a balanced scan in which a backslash escapes the next
\* character; 0 when there is none.
RECURSIVE BracketEnd(_, _, _)
BracketEnd(s, i, depth) ==
    IF i > Len(s) THEN 0
    ELSE IF s[i] = "\\" THEN BracketEnd(s, i + 2, depth)
    ELSE IF s[i] = "[" THEN BracketEnd(s, i + 1, depth + 1)
    ELSE IF s[i] = "]"
         THEN IF depth = 1 THEN i ELSE BracketEnd(s, i + 1, depth - 1)
    ELSE BracketEnd(s, i + 1, depth)

BracketSkippedAt(k, b) ==
    /\ (1 <= k /\ (b = 0 \/ k < b)) => state \in {"LaOptArg", "LaOptArg2"}
    /\ (b > 0 /\ k = b) => state \in {"LaMacro", "LaMacro2"}

\* C24 as written: an optional bracketed argument in front of the required
\* arguments is skipped by a balanced bracket scan in which a backslash
\* escapes the next character: the scanner is in the optional-argument state
\* until the bracket that balances the opening one has been read, and back in
\* the argument-consuming state then.
C24_BracketAsClaimed ==
    (running /\ file_stack # <<>> /\ OccursAt(ArgTail, <<"[">>, 1))
    => BracketSkippedAt(Skipped, BracketEnd(ArgTail, 2, 1))

\* the position in s, from i on, of the next opening brace; 0 when there is
\* none or when a closing brace comes first
RECURSIVE FirstOpen(_, _)
FirstOpen(s, i) ==
    IF i > Len(s) \/ s[i] = "}" THEN 0
    ELSE IF s[i] = "{" THEN i
    ELSE FirstOpen(s, i + 1)

\* the position of the opening brace of the n-th top-level group of s
GroupOpen(s, n) ==
    LET after(p) == IF p = 0 THEN 0 ELSE FirstOpen(s, p + 1)
    IN  IF n = 1 THEN FirstOpen(s, 1) ELSE after(GroupEnd(s, 1, 0, n - 1))

StrippedAt(k, q) ==
    /\ (0 <= k /\ k < q) => (state = "LaMacro2" /\ output = <<>>)
    /\ k = q => (state = "Normal" /\ output = <<>> /\ result # "panic")

\* C25 as written, for arguments without brackets: after a strip-args
\* command with count N the scanner discards the first N-1 top-level groups
\* without output, and on the opening brace of the N-th group it is back in
\* Normal state, the call having completed, so that the content of the group
\* is read by Normal state.
C25_StripAsClaimed ==
    (file_stack # <<>> /\ ArgCommand = RaiseboxText /\ ~Contains(ArgTail, "[")
        /\ GroupOpen(ArgTail, 2) > 0)
    => StrippedAt(Skipped, GroupOpen(ArgTail, 2))

\* C26 as written: the document brace depth, the open braces of the current
\* argument and the remaining arguments are never below zero (for a usize:
\* never a word that a subtraction below zero has wrapped to), and no step
\* aborts on an overflow of their arithmetic.
C26_CountersAsClaimed ==
    /\ current_braces_level >= 0
    /\ open_braces >= 0
    /\ args_count >= 0
    /\ result # "panic"

(***************************************************************************)
(* \( and \[ outside LaTeX mode: documents of the formula delimiters and   *)
(* plain characters, LaTeX mode off (by default or by -t), under -r and -s *)
(***************************************************************************)
MaxFormulaTokens == 3

FormulaTokens ==
    {<<"\\", "(">>, <<"\\", "[">>, <<"\\", ")">>, <<"\\", "]">>, <<"x">>, <<" ">>}

FormulaOptions ==
    {[o EXCEPT !.replace = r, !.space = sp] :
        o \in {DefaultOptions, [LatexOptions EXCEPT !.force_tex = TRUE]},
        r \in BOOLEAN, sp \in BOOLEAN}

InitFormula ==
    \E o \in FormulaOptions : \E toks \in SeqsUpTo(FormulaTokens, MaxFormulaTokens) :
        New(o, MainPath :> Flatten(toks), <<MainName>>, TRUE)

SpecFormula == InitFormula /\ [][Next]_vars

\* C27 as written: with LaTeX mode not active, a process_next call that reads
\* \( or \[ in Normal state consumes the two characters, leaves the state
\* Normal and writes nothing, whatever the replace and space flags.
C27_SkipAsClaimed ==
    [][((ReadingText(<<"\\", "(">>) \/ ReadingText(<<"\\", "[">>)) /\ ~is_latex(opts))
         => /\ state' = "Normal"
            /\ output' = output
            /\ file_stack' # <<>>
            /\ Unread(file_stack'[1].source) = SubSeq(Rest, 3, Len(Rest))]_vars

(***************************************************************************)
(* A space in front of a command: documents of spaces, \cite and its       *)
(* neighbours \cit and \citation, a letter, a brace group and a character  *)
(* outside ASCII, with and without LaTeX mode                              *)
(***************************************************************************)
MaxSpaceTokens == 3

SpaceTokens ==
    {<<" ">>, CiteText, <<"\\", "c", "i", "t">>,
     <<"\\", "c", "i", "t", "a", "t", "i", "o", "n">>, <<"x">>, KeyText, <<NonAscii>>}

InitSpace ==
    \E o \in {DefaultOptions, LatexOptions} :
        \E toks \in SeqsUpTo(SpaceTokens, MaxSpaceTokens) :
            New(o, MainPath :> Flatten(toks), <<MainName>>, TRUE)

SpecSpace == InitSpace /\ [][Next]_vars

\* the space about to be read is followed by \cite and then by no letter
CiteFollows ==
    /\ OccursAt(Rest, <<" ">> \o CiteText, 1)
    /\ (Len(Rest) = 6 \/ ~is_ascii_alphabetic(Rest[7]))

\* C28 as written: without word-only mode, a process_next call that reads a
\* space in Normal state writes nothing if the space is followed by \cite and
\* no further letter, and writes the space in every other case.
C28_SpaceAsClaimed ==
    [][(ReadingText(<<" ">>) /\ ~opts.word)
         => output' = (IF CiteFollows THEN output ELSE Append(output, " "))]_vars

\* C29 as written: on every character sequence, characters outside ASCII
\* included, every process_next call completes normally: the scanner never
\* aborts on a string slice or on arithmetic.
C29_NoAbortAsClaimed == result # "panic"

(***************************************************************************)
(* Control state: the unknown command \zz followed by word-like            *)
(* characters, backslashes, punctuation, a space and a brace               *)
(***************************************************************************)
MaxControlLen == 3

WordLike == {"1", "a", "@", "-", "'", "=", Backtick}

OtherChars == {",", "."}

ControlChars == WordLike \cup OtherChars \cup {"\\", " ", "{"}

InitControl ==
    \E sp \in BOOLEAN : \E tail \in SeqsUpTo(ControlChars, MaxControlLen) :
        New([DefaultOptions EXCEPT !.space = sp],
            MainPath :> (<<"\\", "z", "z">> \o tail), <<MainName>>, TRUE)

SpecControl == InitControl /\ [][Next]_vars

\* process_next is about to read the character c in Control state
ControlReading(c) == CallEnabled /\ state = "Control" /\ OccursAt(Rest, <<c>>, 1)

\* s without the command name it starts with
RECURSIVE SkipName(_)
SkipName(s) ==
    IF s # <<>> /\ (is_ascii_alphabetic(Head(s)) \/ Head(s) = "@") THEN SkipName(Tail(s))
    ELSE s

\* the step leaves the state st and leaves r to be read
ControlStep(st, r) ==
    /\ state' = st
    /\ file_stack' # <<>>
    /\ Unread(file_stack'[1].source) = r

\* C30 as written: in Control state a word-like character (letter, digit,
\* @, -, ', =, backtick) is absorbed without output and the state stays
\* Control; a backslash discards the command name after it and the state
\* stays Control; any other character that is neither whitespace nor an
\* opening brace is left unread, without output, for Normal state.
C30_ControlAsClaimed ==
    [][/\ (\E c \in WordLike : ControlReading(c))
            => (ControlStep("Control", Tail(Rest)) /\ output' = output)
       /\ ControlReading("\\") => ControlStep("Control", SkipName(Tail(Rest)))
       /\ (\E c \in OtherChars : ControlReading(c))
            => (ControlStep("Normal", Rest) /\ output' = output)]_vars

(***************************************************************************)
(* Inline math: a dollar followed by dollars, backslashes, \leq, a verb    *)
(* symbol, a letter and a newline, with and without -r                     *)
(***************************************************************************)
MaxMathTokens == 4

MathTokens ==
    {<<"$">>, <<"\\">>, <<"x">>, <<"=">>, <<"\n">>, <<"\\", "l", "e", "q">>}

InitMath ==
    \E r \in BOOLEAN : \E toks \in SeqsUpTo(MathTokens, MaxMathTokens) :
        New([DefaultOptions EXCEPT !.replace = r], MainPath :> (<<"$">> \o Flatten(toks)),
            <<MainName>>, TRUE)

SpecMath == InitMath /\ [][Next]_vars

\* process_next is about to read in Math state
MathReading == CallEnabled /\ state = "Math"

VerbsNoun == <<" ", "v", "e", "r", "b", "s", " ", "n", "o", "u", "n">>

\* nothing is written but the placeholder of a verb symbol under -r
MathSilent ==
    \/ output' = output
    \/ opts.replace /\ output' = output \o VerbsNoun

\* one step of Math state: a dollar ends math, a backslash and a dollar are
\* read together and math goes on, anything else leaves the state Math
C31_Step ==
    MathReading =>
        /\ MathSilent
        /\ OccursAt(Rest, <<"$">>, 1) => ControlStep("Normal", Tail(Rest))
        /\ OccursAt(Rest, <<"\\", "$">>, 1) => ControlStep("Math", SubSeq(Rest, 3, Len(Rest)))
        /\ ~OccursAt(Rest, <<"$">>, 1) => state' = "Math"

\* the math of the document: what follows the opening dollar, how much of it
\* has been read, and the position of its first dollar that no backslash
\* precedes (0 when there is none)
MathTail == Tail(Doc)

MathRead == Consumed - 1

RECURSIVE MathEnd(_, _)
MathEnd(s, i) ==
    IF i > Len(s) THEN 0
    ELSE IF s[i] = "$" /\ (i = 1 \/ s[i - 1] # "\\") THEN i
    ELSE MathEnd(s, i + 1)

MathUntil(k, e) ==
    /\ (0 <= k /\ (e = 0 \/ k < e)) => state = "Math"
    /\ (e > 0 /\ k = e) => state = "Normal"
    /\ (0 <= k /\ (e = 0 \/ k <= e) /\ ~opts.replace) => output = <<>>

\* the first math of a document has been read through an escaped dollar and
\* through its closing dollar
C31_Witness ==
    /\ running /\ file_stack # <<>>
    /\ MathTail = <<"x", "\\", "$", "$">>
    /\ MathRead = 4
    /\ state = "Normal"
    /\ output = <<>>

\* C31: in Math state no character of the math content is echoed, an escaped
\* dollar does not end math (the state stays Math), and the state returns to
\* Normal exactly at the next dollar that no backslash precedes.
C31_MathEnds ==
    /\ [][C31_Step]_vars
    /\ []((running /\ file_stack # <<>> /\ ~OccursAt(MathTail, <<"$">>, 1))
            => MathUntil(MathRead, MathEnd(MathTail, 1)))

(***************************************************************************)
(* Environment names: \begin{NAME} with NAME over letters of both cases    *)
(* and a star, in LaTeX mode, with q (and Qq) in the ignore list           *)
(***************************************************************************)
MaxNameLen == 3

NameChars == {"q", "Q", "r", "*"}

InitBegin ==
    \E l \in {<<"q">>, <<"q", "Qq">>} : \E name \in SeqsUpTo(NameChars, MaxNameLen) :
        \E tail \in {<<>>, <<"x">>} :
            New(with_env_ignore(LatexOptions, l),
                MainPath :> (BeginText \o <<"{">> \o name \o <<"}">> \o tail),
                <<MainName>>, TRUE)

SpecBegin == InitBegin /\ [][Next]_vars

\* the characters of s from position i up to the next closing brace
RECURSIVE BetweenBraces(_, _)
BetweenBraces(s, i) ==
    IF i > Len(s) \/ s[i] = "}" THEN <<>> ELSE <<s[i]>> \o BetweenBraces(s, i + 1)

Ignored(name) == \E i \in 1..Len(opts.env_ignore) : opts.env_ignore[i] = Str(name)

\* C32 as written: in LaTeX mode a process_next call that reads \begin{NAME}
\* enters the absorb state if and only if the complete text between the
\* braces is equal to an entry of the ignore list.
C32_ExactAsClaimed ==
    [][(ReadingText(BeginText \o <<"{">>) /\ is_latex(opts))
         => (state' = "LaEnv" <=> Ignored(BetweenBraces(Rest, 8)))]_vars

(***************************************************************************)
(* The absorb state: \begin{q}, q ignored, followed by \end, names, \begin *)
(* and text, as the main document or as a file the main document inputs    *)
(***************************************************************************)
MaxAbsorbTokens == 3

AbsorbTokens ==
    {EndText, <<"{", "q", "}">>, <<"{", "r", "}">>, BeginText, <<" ">>, <<"x">>, <<"}">>}

AbsorbFiles(body) ==
    {MainPath :> body,
     (MainPath :> (InputText \o <<"{", "g", "}", "x">>)) @@ (GPath :> body)}

InitAbsorb ==
    \E toks \in SeqsUpTo(AbsorbTokens, MaxAbsorbTokens) :
        \E fs \in AbsorbFiles(BeginText \o <<"{", "q", "}">> \o Flatten(toks)) :
            New(with_env_ignore(LatexOptions, <<"q">>), fs, <<MainName>>, TRUE)

SpecAbsorb == InitAbsorb /\ [][Next]_vars

RECURSIVE DropSpaces(_)
DropSpaces(s) ==
    IF s # <<>> /\ is_whitespace(Head(s)) THEN DropSpaces(Tail(s)) ELSE s

\* in LaEnd, what is about to be read is the remembered name, in braces or bare
EndNameAhead(r) ==
    \/ r # <<>> /\ Head(r) = "{"
          /\ Str(NameAt(DropSpaces(Tail(r)), 1)) = current_ignored_env
    \/ r # <<>> /\ is_ascii_alphabetic(Head(r)) /\ Str(NameAt(r, 1)) = current_ignored_env

Absorbing == state \in {"LaEnv", "LaEnd"}

\* C33 as written: a step that takes the absorb state to Normal is a step of
\* LaEnd, after \end, that reads the remembered name; while absorbing the
\* remembered name does not change.
C33_AbsorbAsClaimed ==
    [][Absorbing =>
        /\ state' \in {"LaEnv", "LaEnd", "Normal"}
        /\ state' = "Normal" => (state = "LaEnd" /\ CallEnabled /\ EndNameAhead(DropSpaces(Rest)))
        /\ current_ignored_env' = current_ignored_env]_vars

(***************************************************************************)
(* Spliced files: m.tex inputs g.tex between its own words, g.tex inputs   *)
(* h.tex; every file has letters of its own                                *)
(***************************************************************************)
MaxSpliceLen == 2

HPath == "./h.tex"

InputOf(name) == InputText \o <<"{", name, "}">>

GTexts ==
    {<<>>, <<"y">>, <<"y">> \o InputOf("h"), InputOf("h") \o <<"w">>,
     <<"y">> \o InputOf("h") \o <<"w">>}

HTexts == {<<>>, <<"z">>, <<"z", " ">>}

InitSplice ==
    \E l \in BOOLEAN : \E pre \in {<<>>, <<"a">>} :
        \E tail \in SeqsUpTo({"b", " "}, MaxSpliceLen) :
            \E g \in GTexts : \E h \in HTexts :
                New([DefaultOptions EXCEPT !.latex = l],
                    (MainPath :> (pre \o InputOf("g") \o tail)) @@ (GPath :> g) @@ (HPath :> h),
                    <<MainName>>, TRUE)

SpecSplice == InitSplice /\ [][Next]_vars

\* the text s with every \input{f} replaced by the text of f, to depth n
RECURSIVE Splice(_, _)
Splice(s, n) ==
    LET file(name) == files["./" \o name \o ".tex"]
    IN  IF s = <<>> THEN <<>>
        ELSE IF n > 0 /\ OccursAt(s, InputText \o <<"{">>, 1)
             THEN Splice(file(s[8]), n - 1) \o Splice(SubSeq(s, 10, Len(s)), n)
        ELSE <<Head(s)>> \o Splice(Tail(s), n)

IsPrefix(s, t) == Len(s) <= Len(t) /\ SubSeq(t, 1, Len(s)) = s

\* C34: when \input{f} is followed, what is written for f comes after what
\* is written for the text before the directive and before what is written
\* for the text after it, at every depth: the output is at every moment a
\* prefix of the document with the files spliced in, and all of it at the end.
C34_SplicedInOrder ==
    /\ IsPrefix(output, Splice(Doc, 2))
    /\ Finished => output = Splice(Doc, 2)

\* a run over three nested files has written the words of all of them
C34_Witness ==
    /\ Finished
    /\ files[GPath] = <<"y">> \o InputOf("h") \o <<"w">>
    /\ files[HPath] = <<"z", " ">>
    /\ output = <<"a", "y", "z", " ", "w", "b">>

(***************************************************************************)
(* Footnotes and braces: documents of \footnote, braces (stray ones too),  *)
(* an unknown command and a letter, given once or twice on the command     *)
(* line                                                                    *)
(***************************************************************************)
MaxBraceTokens == 4

BraceTokens == {FootnoteText, <<"{">>, <<"}">>, <<"x">>, <<"\\", "z", "z">>}

InitBrace ==
    \E tops \in {<<MainName>>, <<MainName, MainName>>} :
        \E toks \in SeqsUpTo(BraceTokens, MaxBraceTokens) :
            New(DefaultOptions, MainPath :> Flatten(toks), tops, TRUE)

SpecBrace == InitBrace /\ [][Next]_vars

FootnoteOpen == footnote_level # -100

\* a closing brace read in Normal state while no footnote is open writes
\* nothing
C35_Step == (Reading("}") /\ ~FootnoteOpen) => output' = output

\* C35: whenever a footnote is open the document brace depth is strictly
\* greater than the footnote marker; a closing brace read while no footnote
\* is open, a stray one at depth zero included, writes no closing
\* parenthesis; and no more closing parentheses than opening ones have been
\* written.
C35_FootnoteDepth ==
    /\ [](FootnoteOpen => current_braces_level > footnote_level)
    /\ [][C35_Step]_vars
    /\ [](Count(output, ")") <= Count(output, "("))

\* a stray closing brace is about to be read at depth zero, after a footnote
\* has been opened and closed
C35_Witness ==
    /\ Reading("}")
    /\ current_braces_level = 0
    /\ ~FootnoteOpen
    /\ output = <<"(", ")">>

(***************************************************************************)
(* The mode over a run: documents of the commands that switch LaTeX mode   *)
(* on, an argument, a word and an \input of a file that switches it on,    *)
(* given once or twice on the command line, under -l and -t                *)
(***************************************************************************)
MaxRunTokens == 3

RunTokens ==
    {DocumentclassText, NewcommandText, BeginText \o DocumentText, <<"{", "a", "}">>,
     <<"x">>, InputOf("g")}

InitRun ==
    \E l \in BOOLEAN : \E t \in BOOLEAN :
        \E tops \in {<<MainName>>, <<MainName, MainName>>} :
            \E toks \in SeqsUpTo(RunTokens, MaxRunTokens) :
                New([DefaultOptions EXCEPT !.latex = l, !.force_tex = t],
                    (MainPath :> Flatten(toks))
                        @@ (GPath :> (DocumentclassText \o <<"{", "a", "}", "y">>)),
                    tops, TRUE)

SpecRun == InitRun /\ [][Next]_vars

\* C36: once LaTeX mode is active it stays active for the rest of the run,
\* across included files and later top-level files; and when TeX mode is
\* forced, LaTeX mode is active in no reachable state, whatever commands are
\* read.
C36_ModeMonotonic ==
    /\ [][is_latex(opts) => is_latex(opts')]_vars
    /\ [](opts.force_tex => ~is_latex(opts))
    /\ [][opts'.force_tex = opts.force_tex]_vars

\* the second top-level file is being read in LaTeX mode that the included
\* file of the first one has switched on
C36_Witness ==
    /\ running /\ pending = <<>> /\ Len(file_stack) = 1
    /\ Doc = <<"x">> \o InputOf("g")
    /\ Consumed = 0
    /\ output = <<"x", "y">>
    /\ is_latex(opts)

(***************************************************************************)
(* Files that end inside a construct: m.tex inputs g.tex and goes on;      *)
(* g.tex ends in math, in an argument, in an ignored environment, in a     *)
(* group, in a footnote or after an unknown command                        *)
(***************************************************************************)
MaxPopTokens == 2

OpenTexts ==
    {<<"$">>, DocumentclassText \o <<"{">>, RaiseboxText \o <<"[">>,
     BeginText \o <<"{", "q", "}">>, <<"{">>, FootnoteText \o <<"{">>,
     <<"\\", "z", "z">>, <<"y">>}

PopTokens == {<<"x">>, <<"$">>, <<"}">>, EndText \o <<"{", "q", "}">>}

InitPop ==
    \E g \in OpenTexts : \E toks \in SeqsUpTo(PopTokens, MaxPopTokens) :
        New(with_env_ignore(LatexOptions, <<"q">>),
            (MainPath :> (InputOf("g") \o Flatten(toks))) @@ (GPath :> g),
            <<MainName>>, TRUE)

SpecPop == InitPop /\ [][Next]_vars

\* C37: the pop of an exhausted source changes nothing but the stack: the
\* lexer state, the document brace depth, the argument counters, the
\* remembered ignored environment, the footnote marker and the options are
\* the same after the pop as before, so that a construct left open at the
\* end of an included file continues in the including file.
C37_PopFrame ==
    [][Len(file_stack') < Len(file_stack) =>
        /\ file_stack' = SubSeq(file_stack, 1, Len(file_stack) - 1)
        /\ UNCHANGED <<opts, state, current_braces_level, open_braces, args_count,
                       current_ignored_env, footnote_level>>]_vars

\* g.tex ended in math and m.tex is being read in Math state
C37_Witness ==
    /\ running /\ Len(file_stack) = 1
    /\ files[GPath] = <<"$">>
    /\ Consumed = 8
    /\ state = "Math"

\* C38: in the argument-skipping states nothing is written and the document
\* brace depth and the footnote marker do not change; LaOptArg only moves to
\* LaMacro and LaOptArg2 only to LaMacro2, and neither changes the two
\* argument counters.
C38_SkippingFrame ==
    [][/\ state \in {"LaMacro", "LaOptArg", "LaMacro2", "LaOptArg2"}
            => /\ output' = output
               /\ current_braces_level' = current_braces_level
               /\ footnote_level' = footnote_level
       /\ state = "LaOptArg"
            => (state' \in {"LaOptArg", "LaMacro"} /\ UNCHANGED <<open_braces, args_count>>)
       /\ state = "LaOptArg2"
            => (state' \in {"LaOptArg2", "LaMacro2"} /\ UNCHANGED <<open_braces, args_count>>)]_vars

\* an optional argument of \raisebox that holds a brace has been skipped
C38_Witness ==
    /\ running /\ file_stack # <<>>
    /\ ArgCommand = RaiseboxText
    /\ OccursAt(ArgTail, <<"[", "{", "]">>, 1)
    /\ Skipped = 3
    /\ state = "LaMacro2"
    /\ open_braces = 0 /\ args_count = 2

(***************************************************************************)
(* Directives inside groups: \input{g}, \include{g} or an ignored          *)
(* \begin{q}x\end{q}, after up to two opening braces and letters and       *)
(* before closing braces and letters, with g.tex absent, unreadable or     *)
(* present, in TeX and in LaTeX mode                                       *)
(***************************************************************************)
MaxDepthTokens == 2

DepthDirectives ==
    {InputOf("g"),
     IncludeText \o <<"{", "g", "}">>,
     BeginText \o <<"{", "q", "}", "x">> \o EndText \o <<"{", "q", "}">>}

InitDepth ==
    \E l \in BOOLEAN : \E dir \in DepthDirectives :
        \E pre \in SeqsUpTo({"{", "x"}, MaxDepthTokens) :
            \E post \in SeqsUpTo({"}", "x"}, MaxDepthTokens) :
                \E fs \in InputFiles(pre \o dir \o post) :
                    New(with_env_ignore([DefaultOptions EXCEPT !.latex = l], <<"q">>),
                        fs, <<MainName>>, TRUE)

SpecDepth == InitDepth /\ [][Next]_vars

\* the text before the directive, the directive and the position of its last
\* character
DirectivePre == SubSeq(Doc, 1, FirstPos(Doc, "\\") - 1)
Directive == CHOOSE t \in DepthDirectives : OccursAt(Doc, t, Len(DirectivePre) + 1)
DirectiveEnd == Len(DirectivePre) + Len(Directive)

\* the directive has been read to its last character, and so has the file
\* it names
DirectiveRead == running /\ Len(file_stack) = 1 /\ Consumed = DirectiveEnd

\* C39 as written: once a directive has been read, the document brace depth
\* is the one before the directive, which is the number of groups opened
\* before it.
C39_DepthAsClaimed ==
    DirectiveRead => current_braces_level = Count(DirectivePre, "{")

(***************************************************************************)
(* try_match on a CharSource: one source over the letters of \end and the   *)
(* newline, read and pushed back as the lexer does, and matched against    *)
(* every string over the same characters                                   *)
(***************************************************************************)
MaxMatchLen == 3

MatchChars == {"e", "n", "\n"}

MatchStrings == SeqsUpTo(MatchChars, MaxMatchLen)

InitMatch ==
    \E content \in SeqsUpTo(MatchChars, MaxMatchLen) :
        /\ state = "Normal"
        /\ opts = DefaultOptions
        /\ output = <<>>
        /\ file_stack = <<[source |-> CharSource_new(content), name |-> MainName]>>
        /\ current_ignored_env = ""
        /\ open_braces = 0
        /\ args_count = 0
        /\ current_braces_level = 0
        /\ footnote_level = -100
        /\ at_column_zero = TRUE
        /\ stderr = <<>>
        /\ files = (MainPath :> content)
        /\ pending = <<>>
        /\ running = FALSE
        /\ result = "none"
        /\ overflow_checks = TRUE

\* self.try_match(s), the value returned kept in output
SourceTryMatch ==
    \E s \in MatchStrings :
        LET on(r) ==
                /\ file_stack' = r.d.file_stack
                /\ output' = IF r.ok THEN <<"true">> ELSE <<"false">>
        IN  /\ on(try_match(Self, s))
            /\ UNCHANGED <<opts, state, current_ignored_env, open_braces, args_count,
                           current_braces_level, footnote_level, at_column_zero, stderr,
                           files, pending, running, result, overflow_checks>>

NextMatch == SourceNext \/ SourceUnget \/ SourceTryMatch

SpecMatch == InitMatch /\ [][NextMatch]_vars

\* what try_match(s) returns and leaves, against the source src it is called on
Matched(src, s, r) ==
    IF r.ok
    THEN /\ IsPrefix(s, Unread(src))
         /\ Unread(current_source(r.d)) = SubSeq(Unread(src), Len(s) + 1, Len(Unread(src)))
    ELSE /\ ~IsPrefix(s, Unread(src))
         /\ Unread(current_source(r.d)) = Unread(src)
         /\ current_source(r.d).line = src.line

\* C40: in every state of the source and for every string s, try_match(s)
\* either returns true after reading exactly the characters of s, or returns
\* false and leaves the characters still to be read and the line counter as
\* they were, also when the mismatch is on a newline or at the end of input.
C40_MatchOrRestore ==
    \A s \in MatchStrings : Matched(Source, s, try_match(Self, s))

\* try_match has failed at the end of input after a letter and a newline
\* that it has put back, and the source is on its first line again
C40_Witness ==
    /\ output = <<"false">>
    /\ Source.buffer = <<"n", "e", "\n">>
    /\ Source.pos = 3
    /\ Source.pushback = <<"\n", "e">>
    /\ Source.line = 1

(***************************************************************************)
(* The program over all the inputs above                                   *)
(***************************************************************************)
Init ==
    \/ InitPlain
    \/ InitEnv
    \/ InitVerbatim
    \/ InitFootnote
    \/ InitPunct
    \/ InitWord
    \/ InitVerb
    \/ InitInput
    \/ InitDeep
    \/ InitStates
    \/ InitAbort
    \/ InitMode
    \/ InitCite
    \/ InitNoFollow
    \/ InitOnly
    \/ InitLoc
    \/ InitRef
    \/ InitLa
    \/ InitArgs
    \/ InitFormula
    \/ InitSpace
    \/ InitControl
    \/ InitMath
    \/ InitBegin
    \/ InitAbsorb
    \/ InitSplice
    \/ InitBrace
    \/ InitRun
    \/ InitPop
    \/ InitDepth

Spec == Init /\ [][Next]_vars
====
